---- MODULE Spec2Model ----
(***************************************************************************)
(* frep: the file rewrite engine of frep-core (replace.rs).                *)
(*                                                                         *)
(* A file is a sequence of bytes.  The target path holds `disk`; a rewrite *)
(* writes into a temporary sibling and renames it over the target.  The    *)
(* engine's position is `pc`; every I/O step may fail, and another process *)
(* may replace the target's content (by rename) while the engine runs.     *)
(***************************************************************************)
EXTENDS Integers, Sequences, FiniteSets, TLC

(***************************************************************************)
(* Bounds of the model.                                                    *)
(***************************************************************************)
MaxLines == 2
MaxResults == 2
MaxExternalWrites == 1

(***************************************************************************)
(* Bytes, line endings, texts.                                             *)
(***************************************************************************)
LF == "\n"
CR == "\r"

LineEnding == {"None", "Lf", "CrLf"}

\* LineEnding::as_bytes
as_bytes(ending) ==
    CASE ending = "Lf" -> <<LF>>
      [] ending = "CrLf" -> <<CR, LF>>
      [] OTHER -> <<>>

\* index of the first LF of bytes, 0 when there is none
FirstLF(bytes) ==
    IF \E i \in 1..Len(bytes) : bytes[i] = LF
    THEN CHOOSE i \in 1..Len(bytes) :
            bytes[i] = LF /\ \A j \in 1..(i - 1) : bytes[j] # LF
    ELSE 0

\* BufReadExt::lines_with_endings: the (content, ending) pairs of a stream
RECURSIVE lines_with_endings(_)
lines_with_endings(bytes) ==
    IF bytes = <<>> THEN <<>>
    ELSE LET i == FirstLF(bytes) IN
         IF i = 0 THEN << [line |-> bytes, ending |-> "None"] >>
         ELSE LET rest == SubSeq(bytes, i + 1, Len(bytes)) IN
              IF i > 1 /\ bytes[i - 1] = CR
              THEN << [line |-> SubSeq(bytes, 1, i - 2), ending |-> "CrLf"] >>
                     \o lines_with_endings(rest)
              ELSE << [line |-> SubSeq(bytes, 1, i - 1), ending |-> "Lf"] >>
                     \o lines_with_endings(rest)

\* concatenation of a sequence of byte chunks
RECURSIVE Flatten(_)
Flatten(chunks) ==
    IF chunks = <<>> THEN <<>> ELSE Head(chunks) \o Flatten(Tail(chunks))

\* the bytes of one line as they stand in the file
LineBytes(l) == l.line \o as_bytes(l.ending)

\* the bytes of a sequence of lines
FileOf(ls) == Flatten([i \in 1..Len(ls) |-> LineBytes(ls[i])])

(***************************************************************************)
(* SearchType and the match/replace evaluator.                             *)
(***************************************************************************)
\* A SearchType is Fixed(String), Pattern(Regex) or PatternAdvanced(FancyRegex).
\* `text` is the search text it was made from; `literal` says that every
\* character of the text stands for itself (an escaped literal);
\* `whole_word` and `match_case` are the assertions and the flag compiled
\* into a regular expression.
Fixed(text) ==
    [type |-> "Fixed", text |-> text, literal |-> TRUE,
     whole_word |-> FALSE, match_case |-> TRUE]

Pattern(text) ==
    [type |-> "Pattern", text |-> text, literal |-> FALSE,
     whole_word |-> FALSE, match_case |-> TRUE]

PatternAdvanced(text) ==
    [type |-> "PatternAdvanced", text |-> text, literal |-> FALSE,
     whole_word |-> FALSE, match_case |-> TRUE]

\* SearchType::is_empty
is_empty(search) == search.text = <<>>

\* str::contains
Contains(text, pat) ==
    \E i \in 1..(Len(text) - Len(pat) + 1) : SubSeq(text, i, i + Len(pat) - 1) = pat

\* a word character: [a-zA-Z0-9_]
is_word(c) == c \in {"a", "b", "c", "A", "_", "0"}

\* char::to_lowercase on the characters of the model
to_lowercase(c) == IF c = "A" THEN "a" ELSE c

\* one element p of a regular expression matches the character c: `.` is any
\* character but \n, any other element is a character, compared with or
\* without case
atom_matches(p, c, search) ==
    IF ~search.literal /\ p = "."
    THEN c # LF
    ELSE IF search.match_case THEN p = c
         ELSE to_lowercase(p) = to_lowercase(c)

\* the regular expression matches text at position i; with whole_word the
\* match is not adjacent to a word character
match_at(text, i, search) ==
    LET m == Len(search.text) IN
    /\ i + m - 1 <= Len(text)
    /\ \A k \in 1..m : atom_matches(search.text[k], text[i + k - 1], search)
    /\ search.whole_word =>
          /\ i = 1 \/ ~is_word(text[i - 1])
          /\ i + m > Len(text) \/ ~is_word(text[i + m])

\* Regex::is_match
is_match(text, search) == \E i \in 1..Len(text) : match_at(text, i, search)

\* the length of the capture-group name at the start of rest: [0-9A-Za-z_]+
RECURSIVE name_len(_)
name_len(rest) ==
    IF rest # <<>> /\ is_word(Head(rest)) THEN 1 + name_len(Tail(rest)) ELSE 0

\* Captures::expand: $$ is a dollar sign, $name is the text of the group
\* `name` (the whole match for 0, nothing for a group that does not exist:
\* the expressions of the model have no other group), any other $ is itself
RECURSIVE expand(_, _)
expand(rep, matched) ==
    IF rep = <<>> THEN <<>>
    ELSE IF Head(rep) # "$" THEN <<Head(rep)>> \o expand(Tail(rep), matched)
    ELSE LET rest == Tail(rep)
             n == name_len(rest)
         IN IF rest # <<>> /\ Head(rest) = "$"
            THEN <<"$">> \o expand(Tail(rest), matched)
            ELSE IF n = 0 THEN <<"$">> \o expand(rest, matched)
            ELSE (IF SubSeq(rest, 1, n) = <<"0">> THEN matched ELSE <<>>)
                 \o expand(SubSeq(rest, n + 1, Len(rest)), matched)

\* Regex::replace_all: every non-overlapping match, left to right, replaced
\* by the expansion of rep
RECURSIVE replace_all_from(_, _, _, _)
replace_all_from(text, i, search, rep) ==
    IF i > Len(text) \/ search.text = <<>> THEN SubSeq(text, i, Len(text))
    ELSE IF match_at(text, i, search)
         THEN expand(rep, SubSeq(text, i, i + Len(search.text) - 1))
              \o replace_all_from(text, i + Len(search.text), search, rep)
         ELSE <<text[i]>> \o replace_all_from(text, i + 1, search, rep)

replace_all(text, search, rep) == replace_all_from(text, 1, search, rep)

\* search::contains_search
contains_search(line, search) ==
    IF search.type = "Fixed" THEN Contains(line, search.text)
    ELSE is_match(line, search)

\* str::replace replacing the first occurrence only
RECURSIVE str_replace_first(_, _, _)
str_replace_first(text, from, to) ==
    IF Len(text) < Len(from) \/ from = <<>> THEN text
    ELSE IF SubSeq(text, 1, Len(from)) = from
         THEN to \o SubSeq(text, Len(from) + 1, Len(text))
         ELSE <<Head(text)>> \o str_replace_first(Tail(text), from, to)

\* str::replace: every non-overlapping occurrence, left to right
RECURSIVE str_replace(_, _, _)
str_replace(text, from, to) ==
    IF Len(text) < Len(from) \/ from = <<>> THEN text
    ELSE IF SubSeq(text, 1, Len(from)) = from
         THEN to \o str_replace(SubSeq(text, Len(from) + 1, Len(text)), from, to)
         ELSE <<Head(text)>> \o str_replace(Tail(text), from, to)

NoneStr == [some |-> FALSE]
SomeStr(s) == [some |-> TRUE, val |-> s]

\* replacement_if_match returning the replaced text whether or not the
\* pattern occurs
replacement_if_match_always(line, search, replace) ==
    IF line = <<>> \/ is_empty(search) THEN NoneStr
    ELSE SomeStr(str_replace(line, search.text, replace))

\* replacement_if_match without the early return on an empty line or an
\* empty search
replacement_if_match_unguarded(line, search, replace) ==
    IF contains_search(line, search)
    THEN SomeStr(IF search.type = "Fixed"
                 THEN str_replace(line, search.text, replace)
                 ELSE replace_all(line, search, replace))
    ELSE NoneStr

\* replacement_if_match replacing in the lower-cased line when the pattern
\* ignores case
replacement_if_match_lower(line, search, replace) ==
    IF line = <<>> \/ is_empty(search) THEN NoneStr
    ELSE IF contains_search(line, search)
         THEN SomeStr(IF search.type = "Fixed"
                      THEN str_replace(line, search.text, replace)
                      ELSE IF search.match_case
                      THEN replace_all(line, search, replace)
                      ELSE replace_all([i \in 1..Len(line) |-> to_lowercase(line[i])],
                                       search, replace))
         ELSE NoneStr

replacement_if_match(line, search, replace) ==
    IF line = <<>> \/ is_empty(search) THEN NoneStr
    ELSE IF contains_search(line, search)
         THEN SomeStr(IF search.type = "Fixed"
                      THEN str_replace(line, search.text, replace)
                      ELSE replace_all(line, search, replace))
         ELSE NoneStr

(***************************************************************************)
(* Search results.                                                         *)
(***************************************************************************)
ErrFileChanged == "File changed since last search"
ErrNotFound == "Failed to find search result in file"

\* search::search_file: one included result per matching line
RECURSIVE search_lines(_, _, _)
search_lines(ls, n, search) ==
    IF ls = <<>> THEN <<>>
    ELSE (IF ~is_empty(search) /\ contains_search(Head(ls).line, search)
          THEN << [line_number |-> n, line |-> Head(ls).line,
                   line_ending |-> Head(ls).ending, included |-> TRUE] >>
          ELSE <<>>)
         \o search_lines(Tail(ls), n + 1, search)

search_file(bytes, search) == search_lines(lines_with_endings(bytes), 1, search)

add_replacement(search_result, search, replace) ==
    LET replacement == replacement_if_match(search_result.line, search, replace) IN
    IF replacement.some
    THEN [some |-> TRUE,
          val |-> [line_number |-> search_result.line_number,
                   line |-> search_result.line,
                   line_ending |-> search_result.line_ending,
                   included |-> search_result.included,
                   replacement |-> replacement.val,
                   replace_result |-> "None"]]
    ELSE [some |-> FALSE]


\* line_map in which the first candidate of a line number keeps the key
line_map_first(results) ==
    [n \in {results[i].line_number : i \in 1..Len(results)} |->
        CHOOSE i \in 1..Len(results) :
            /\ results[i].line_number = n
            /\ \A j \in 1..(i - 1) : results[j].line_number # n]

\* the HashMap built from the slice: line number -> index of the candidate
\* that holds the key after all inserts (a later insert replaces an earlier)
line_map(results) ==
    [n \in {results[i].line_number : i \in 1..Len(results)} |->
        CHOOSE i \in 1..Len(results) :
            /\ results[i].line_number = n
            /\ \A j \in (i + 1)..Len(results) : results[j].line_number # n]

\* process_line writing the replacement over a line that changed
process_line_overwrite(n, l, results) ==
    IF n \in DOMAIN line_map(results)
    THEN LET i == line_map(results)[n] IN
         [chunk |-> results[i].replacement \o as_bytes(l.ending),
          results |-> [results EXCEPT ![i].replace_result =
                          IF l.line = results[i].line THEN "Success"
                          ELSE ErrFileChanged]]
    ELSE [chunk |-> l.line \o as_bytes(l.ending), results |-> results]

\* process_line marking the candidate without replacing the line
process_line_keep(n, l, results) ==
    IF n \in DOMAIN line_map(results)
    THEN LET i == line_map(results)[n] IN
         [chunk |-> l.line \o as_bytes(l.ending),
          results |-> [results EXCEPT ![i].replace_result =
                          IF l.line = results[i].line THEN "Success"
                          ELSE ErrFileChanged]]
    ELSE [chunk |-> l.line \o as_bytes(l.ending), results |-> results]

\* process_line writing every line with a \n terminator
process_line_lf(n, l, results) ==
    IF n \in DOMAIN line_map(results)
    THEN LET i == line_map(results)[n] IN
         IF l.line = results[i].line
         THEN [chunk |-> results[i].replacement \o <<LF>>,
               results |-> [results EXCEPT ![i].replace_result = "Success"]]
         ELSE [chunk |-> l.line \o <<LF>>,
               results |-> [results EXCEPT ![i].replace_result = ErrFileChanged]]
    ELSE [chunk |-> l.line \o <<LF>>, results |-> results]

\* process_line without the comparison with the cached line
process_line_blind(n, l, results) ==
    IF n \in DOMAIN line_map(results)
    THEN LET i == line_map(results)[n] IN
         [chunk |-> results[i].replacement \o as_bytes(l.ending),
          results |-> [results EXCEPT ![i].replace_result = "Success"]]
    ELSE [chunk |-> l.line \o as_bytes(l.ending), results |-> results]

\* one iteration of the loop of replace_in_file, up to the write: the bytes
\* to write for line number n and the slice with the outcome recorded
process_line(n, l, results) ==
    IF n \in DOMAIN line_map(results)
    THEN LET i == line_map(results)[n] IN
         IF l.line = results[i].line
         THEN [chunk |-> results[i].replacement \o as_bytes(l.ending),
               results |-> [results EXCEPT ![i].replace_result = "Success"]]
         ELSE [chunk |-> l.line \o as_bytes(l.ending),
               results |-> [results EXCEPT ![i].replace_result = ErrFileChanged]]
    ELSE [chunk |-> l.line \o as_bytes(l.ending), results |-> results]

(***************************************************************************)
(* Statistics.                                                             *)
(***************************************************************************)
Panicked == [panicked |-> TRUE]

\* the fold leaving out the candidates that carry no outcome
RECURSIVE stats_fold_drop(_, _)
stats_fold_drop(results, acc) ==
    IF results = <<>> THEN acc
    ELSE LET res == Head(results) IN
         IF ~res.included THEN Panicked
         ELSE IF res.replace_result = "Success"
         THEN stats_fold_drop(Tail(results),
                              [acc EXCEPT !.num_successes = acc.num_successes + 1])
         ELSE IF res.replace_result = "None"
         THEN stats_fold_drop(Tail(results), acc)
         ELSE stats_fold_drop(Tail(results),
                              [acc EXCEPT !.errors = Append(acc.errors, res)])

\* the fold reporting a candidate that carries no outcome as changed
RECURSIVE stats_fold_changed(_, _)
stats_fold_changed(results, acc) ==
    IF results = <<>> THEN acc
    ELSE LET res == Head(results) IN
         IF ~res.included THEN Panicked
         ELSE IF res.replace_result = "Success"
         THEN stats_fold_changed(Tail(results),
                                 [acc EXCEPT !.num_successes = acc.num_successes + 1])
         ELSE IF res.replace_result = "None"
         THEN stats_fold_changed(Tail(results),
                                 [acc EXCEPT !.errors =
                                     Append(acc.errors,
                                            [res EXCEPT !.replace_result = ErrFileChanged])])
         ELSE stats_fold_changed(Tail(results),
                                 [acc EXCEPT !.errors = Append(acc.errors, res)])

\* the fold without the assertion on `included`
RECURSIVE stats_fold_unchecked(_, _)
stats_fold_unchecked(results, acc) ==
    IF results = <<>> THEN acc
    ELSE LET res == Head(results) IN
         IF res.replace_result = "Success"
         THEN stats_fold_unchecked(Tail(results),
                                   [acc EXCEPT !.num_successes = acc.num_successes + 1])
         ELSE IF res.replace_result = "None"
         THEN stats_fold_unchecked(Tail(results),
                                   [acc EXCEPT !.errors =
                                       Append(acc.errors,
                                              [res EXCEPT !.replace_result = ErrNotFound])])
         ELSE stats_fold_unchecked(Tail(results),
                                   [acc EXCEPT !.errors = Append(acc.errors, res)])

\* the fold in which an error takes the place of the errors before it
RECURSIVE stats_fold_latest(_, _)
stats_fold_latest(results, acc) ==
    IF results = <<>> THEN acc
    ELSE LET res == Head(results) IN
         IF ~res.included THEN Panicked
         ELSE IF res.replace_result = "Success"
         THEN stats_fold_latest(Tail(results),
                                [acc EXCEPT !.num_successes = acc.num_successes + 1])
         ELSE IF res.replace_result = "None"
         THEN stats_fold_latest(Tail(results),
                                [acc EXCEPT !.errors =
                                    <<[res EXCEPT !.replace_result = ErrNotFound]>>])
         ELSE stats_fold_latest(Tail(results), [acc EXCEPT !.errors = <<res>>])

RECURSIVE stats_fold(_, _)
stats_fold(results, acc) ==
    IF results = <<>> THEN acc
    ELSE LET res == Head(results) IN
         IF ~res.included THEN Panicked
         ELSE IF res.replace_result = "Success"
         THEN stats_fold(Tail(results),
                         [acc EXCEPT !.num_successes = acc.num_successes + 1])
         ELSE IF res.replace_result = "None"
         THEN stats_fold(Tail(results),
                         [acc EXCEPT !.errors =
                             Append(acc.errors, [res EXCEPT !.replace_result = ErrNotFound])])
         ELSE stats_fold(Tail(results),
                         [acc EXCEPT !.errors = Append(acc.errors, res)])

calculate_statistics(results) ==
    stats_fold(results, [panicked |-> FALSE, num_successes |-> 0, errors |-> <<>>])

(***************************************************************************)
(* The inputs of the model.                                                *)
(***************************************************************************)
MAX_FILE_SIZE == 104857600

\* fs::metadata(path) returned an error: there is no size
NoSize == -1

Bodies == {<<>>, <<"a">>}

\* files of n lines; only the last line may lack a terminator
LinesOf(n) ==
    {ls \in [1..n -> [line : Bodies, ending : LineEnding]] :
        \A i \in 1..(n - 1) : ls[i].ending # "None"}

Contents == {FileOf(ls) : ls \in UNION {LinesOf(n) : n \in 0..MaxLines}}

Searches == {Fixed(<<>>), Fixed(<<"a">>), Fixed(<<LF>>), Fixed(<<"a", LF>>)}

Replacements == {<<>>, <<"b">>, <<LF>>, <<CR>>}

\* what another process may put at the target path
ExternalContents == {<<>>, <<"a", LF>>, <<"b", LF, "a">>}

\* candidates handed to replace_in_file by a caller
Candidates ==
    [line_number : 0..(MaxLines + 1), line : {<<"a">>},
     line_ending : {"Lf"}, included : BOOLEAN,
     replacement : {<<"c">>}, replace_result : {"None"}]

Slices == UNION {[1..n -> Candidates] : n \in 0..MaxResults}

Paths == {"file", "root", "missing"}

(***************************************************************************)
(* State.                                                                  *)
(***************************************************************************)
VARIABLES
    path,       \* kind of the target path: a file, "/" (no parent), or absent
    op,         \* the function that was called
    search,     \* search: &SearchType
    replace,    \* replace: &str
    disk,       \* bytes a reader of the target path sees
    pc,         \* position of the engine
    file_size,  \* fs::metadata(path).len() as read by should_replace_in_memory
    content,    \* replace_in_memory: content
    results,    \* the slice of SearchResultWithReplacement
    input,      \* replace_in_file: the lines of the opened input file
    chunks,     \* the byte chunks written to the temporary file so far
    tempLive,   \* a temporary file exists under its temporary name
    tempDirs,   \* the directories temporary files were created in, in order
    ret,        \* the value returned by op
    stats,      \* the ReplaceStats computed from results
    calls,      \* the functions entered, in order
    base,       \* the last content put at the path by someone else
    committed,  \* the path holds the output of this rewrite
    clobbered,  \* the rename replaced content the engine had not read
    ioFault,    \* an I/O operation has failed
    extAt,      \* the positions of the engine at the external writes
    im_ret,     \* the value replace_in_memory returned, "none" before
    config,     \* search_config: SearchConfiguration
    handler,    \* error_handler.errors
    validation, \* the results inside validate_search_configuration
    output,     \* the text or the summary built by find_and_replace_impl
    tree,       \* the files under config.directory and the walk over them
    args,       \* main: args, the parsed command line
    stdin_content \* main: stdin_content

vars == <<path, op, search, replace, disk, pc, file_size, content, results,
          input, chunks, tempLive, tempDirs, ret, stats, calls, base,
          committed, clobbered, ioFault, extAt, im_ret, config, handler,
          validation, output, tree, args, stdin_content>>

\* the command line of the frep binary
cliVars == <<args, stdin_content>>

\* the state of find_and_replace_impl and of the validation
runVars == <<config, handler, validation, output, tree, cliVars>>

NoStats == [panicked |-> FALSE, num_successes |-> -1, errors |-> <<>>]

\* the engine is called directly: there is no configuration, no validation
\* and no directory
NoConfig == [search_text |-> <<>>]
NoValidation == [ret |-> "none"]
NoTree == [files |-> <<>>]
NoArgs == [search_text |-> <<>>]

EntryPc(o) ==
    CASE o = "replace_all_in_file" -> "ra_size"
      [] o = "replace_in_memory" -> "im_read"
      [] o = "replace_chunked" -> "ch_search"
      [] OTHER -> "rif_start"

InitCommon ==
    /\ pc = EntryPc(op)
    /\ disk \in (IF path = "file" THEN Contents ELSE {<<>>})
    /\ base = disk
    /\ file_size = 0
    /\ content = <<>>
    /\ input = <<>>
    /\ chunks = <<>>
    /\ tempLive = FALSE
    /\ tempDirs = <<>>
    /\ ret = "running"
    /\ stats = NoStats
    /\ calls = <<op>>
    /\ committed = FALSE
    /\ clobbered = FALSE
    /\ ioFault = FALSE
    /\ extAt = <<>>
    /\ im_ret = "none"
    /\ config = NoConfig
    /\ handler = <<>>
    /\ validation = NoValidation
    /\ output = <<>>
    /\ tree = NoTree
    /\ args = NoArgs
    /\ stdin_content = NoneStr

\* the engine is called on a path with a pattern and a replacement text
Init ==
    /\ path \in Paths
    /\ op \in {"replace_all_in_file", "replace_in_memory", "replace_chunked"}
    /\ search \in Searches
    /\ replace \in Replacements
    /\ results = <<>>
    /\ InitCommon

\* replace_in_file is called with a slice of candidates of one path
InitSlice ==
    /\ path \in Paths
    /\ op = "replace_in_file"
    /\ search = Fixed(<<>>)
    /\ replace = <<>>
    /\ results \in Slices
    /\ InitCommon


(***************************************************************************)
(* Returning from the functions.                                           *)
(***************************************************************************)
\* replace_in_file returns r to its caller: replace_chunked maps Ok to
\* Ok(true) and passes an error on (the ? operator)
RIFReturn(r) ==
    /\ pc' = "done"
    /\ ret' = IF op = "replace_in_file" THEN r
              ELSE IF r = "Ok" THEN "OkTrue" ELSE "Err"

\* replace_in_memory returns r: replace_all_in_file logs an error and goes
\* on to replace_chunked
IMReturn(r) ==
    IF op = "replace_all_in_file" /\ r = "Err"
    THEN /\ pc' = "ch_search"
         /\ calls' = Append(calls, "replace_chunked")
         /\ ret' = ret
         /\ im_ret' = r
    ELSE /\ pc' = "done"
         /\ calls' = calls
         /\ ret' = r
         /\ im_ret' = r

(***************************************************************************)
(* replace_all_in_file                                                     *)
(***************************************************************************)
\* RA_Size with a threshold that excludes a file of exactly MAX_FILE_SIZE bytes
RA_Size_exclusive ==
    /\ pc = "ra_size"
    /\ \/ /\ path # "missing"
          /\ \E size \in {Len(disk), MAX_FILE_SIZE, MAX_FILE_SIZE + 1} :
                /\ file_size' = size
                /\ IF size < MAX_FILE_SIZE
                   THEN pc' = "im_read" /\ calls' = Append(calls, "replace_in_memory")
                   ELSE pc' = "ch_search" /\ calls' = Append(calls, "replace_chunked")
          /\ ioFault' = ioFault
       \/ /\ pc' = "ch_search"
          /\ calls' = Append(calls, "replace_chunked")
          /\ ioFault' = (ioFault \/ path = "file")
          /\ file_size' = NoSize
    /\ UNCHANGED <<path, op, search, replace, disk, content, results, input,
                   chunks, tempLive, tempDirs, ret, stats, base, committed,
                   clobbered, extAt>>
    /\ UNCHANGED <<im_ret, runVars>>

\* should_replace_in_memory and the choice of the path
RA_Size ==
    /\ pc = "ra_size"
    /\ \/ /\ path # "missing"
          /\ \E size \in {Len(disk), MAX_FILE_SIZE, MAX_FILE_SIZE + 1} :
                /\ file_size' = size
                /\ IF size <= MAX_FILE_SIZE
                   THEN pc' = "im_read" /\ calls' = Append(calls, "replace_in_memory")
                   ELSE pc' = "ch_search" /\ calls' = Append(calls, "replace_chunked")
          /\ ioFault' = ioFault
       \/ /\ pc' = "ch_search"
          /\ calls' = Append(calls, "replace_chunked")
          /\ ioFault' = (ioFault \/ path = "file")
          /\ file_size' = NoSize
    /\ UNCHANGED <<path, op, search, replace, disk, content, results, input,
                   chunks, tempLive, tempDirs, ret, stats, base, committed,
                   clobbered, extAt>>
    /\ UNCHANGED <<im_ret, runVars>>

(***************************************************************************)
(* replace_in_memory                                                       *)
(***************************************************************************)
\* fs::read_to_string and replacement_if_match on the whole content
IM_Read ==
    /\ pc = "im_read"
    /\ \/ /\ path = "file"
          /\ content' = disk
          /\ IF replacement_if_match(disk, search, replace).some
             THEN pc' = "im_temp" /\ ret' = ret /\ calls' = calls /\ im_ret' = im_ret
             ELSE IMReturn("OkFalse")
          /\ ioFault' = ioFault
       \/ /\ IMReturn("Err")
          /\ ioFault' = (ioFault \/ path = "file")
          /\ content' = content
    /\ UNCHANGED <<path, op, search, replace, disk, file_size, results, input,
                   chunks, tempLive, tempDirs, stats, base, committed,
                   clobbered, extAt>>
    /\ UNCHANGED runVars

\* NamedTempFile::new_in(parent_dir)
IM_Temp ==
    /\ pc = "im_temp"
    /\ \/ /\ pc' = "im_write"
          /\ tempLive' = TRUE
          /\ tempDirs' = Append(tempDirs, "parent")
          /\ UNCHANGED <<ret, calls, ioFault, im_ret>>
       \/ /\ IMReturn("Err")
          /\ ioFault' = TRUE
          /\ UNCHANGED <<tempLive, tempDirs>>
    /\ UNCHANGED <<path, op, search, replace, disk, file_size, content, results,
                   input, chunks, stats, base, committed, clobbered, extAt>>
    /\ UNCHANGED runVars

\* temp_file.write_all(new_content.as_bytes())
IM_Write ==
    /\ pc = "im_write"
    /\ \/ /\ pc' = "im_persist"
          /\ chunks' = <<replacement_if_match(content, search, replace).val>>
          /\ UNCHANGED <<ret, calls, ioFault, tempLive, im_ret>>
       \/ /\ IMReturn("Err")
          /\ ioFault' = TRUE
          /\ tempLive' = FALSE
          /\ chunks' = chunks
    /\ UNCHANGED <<path, op, search, replace, disk, file_size, content, results,
                   input, tempDirs, stats, base, committed, clobbered, extAt>>
    /\ UNCHANGED runVars

\* temp_file.persist(file_path): the rename over the target
IM_Persist ==
    /\ pc = "im_persist"
    /\ \/ /\ disk' = Flatten(chunks)
          /\ committed' = TRUE
          /\ clobbered' = (disk # content)
          /\ IMReturn("OkTrue")
          /\ ioFault' = ioFault
       \/ /\ IMReturn("Err")
          /\ ioFault' = TRUE
          /\ UNCHANGED <<disk, committed, clobbered>>
    /\ tempLive' = FALSE
    /\ UNCHANGED <<path, op, search, replace, file_size, content, results,
                   input, chunks, tempDirs, stats, base, extAt>>
    /\ UNCHANGED runVars

(***************************************************************************)
(* replace_chunked                                                         *)
(***************************************************************************)
\* the candidates of replace_chunked: search_file, then add_replacement
replacement_results(bytes, s, r) ==
    LET found == search_file(bytes, s) IN
    [i \in 1..Len(found) |-> add_replacement(found[i], s, r).val]

\* search_file, add_replacement for every result, and the choice between
\* the rewrite pass and Ok(false)
CH_Search ==
    /\ pc = "ch_search"
    /\ \/ /\ path = "file"
          /\ results' = replacement_results(disk, search, replace)
          /\ IF results' # <<>>
             THEN /\ pc' = "rif_start"
                  /\ calls' = Append(calls, "replace_in_file")
                  /\ ret' = ret
             ELSE /\ pc' = "done"
                  /\ calls' = calls
                  /\ ret' = "OkFalse"
          /\ ioFault' = ioFault
       \/ /\ pc' = "done"
          /\ ret' = "Err"
          /\ ioFault' = (ioFault \/ path = "file")
          /\ UNCHANGED <<results, calls>>
       \/ /\ path = "root"
          /\ pc' = "done"
          /\ ret' = "OkFalse"
          /\ UNCHANGED <<results, calls, ioFault>>
    /\ UNCHANGED <<path, op, search, replace, disk, file_size, content, input,
                   chunks, tempLive, tempDirs, stats, base, committed,
                   clobbered, extAt>>
    /\ UNCHANGED <<im_ret, runVars>>


(***************************************************************************)
(* replace_in_file                                                         *)
(***************************************************************************)
\* an I/O error inside replace_in_file: the ? operator returns the error
\* and the NamedTempFile is dropped
RIF_Fail ==
    /\ tempLive' = FALSE
    /\ ioFault' = (ioFault \/ path = "file")
    /\ RIFReturn("Err")

\* the early return on an empty slice, line_map, parent_dir and
\* NamedTempFile::new_in(parent_dir)
RIF_Start ==
    /\ pc = "rif_start"
    /\ \/ /\ results = <<>>
          /\ RIFReturn("Ok")
          /\ UNCHANGED <<tempLive, tempDirs, ioFault, chunks>>
       \/ /\ results # <<>>
          /\ path # "missing"
          /\ pc' = "rif_open"
          /\ tempLive' = TRUE
          /\ tempDirs' = Append(tempDirs, IF path = "root" THEN "cwd" ELSE "parent")
          /\ chunks' = <<>>
          /\ UNCHANGED <<ret, ioFault>>
       \/ /\ results # <<>>
          /\ RIF_Fail
          /\ UNCHANGED <<tempDirs, chunks>>
    /\ UNCHANGED <<path, op, search, replace, disk, file_size, content, results,
                   input, stats, calls, base, committed, clobbered, extAt>>
    /\ UNCHANGED <<im_ret, runVars>>

\* File::open(file_path) and BufReader::new
RIF_Open ==
    /\ pc = "rif_open"
    /\ \/ /\ path # "missing"
          /\ pc' = "rif_create"
          /\ input' = lines_with_endings(disk)
          /\ UNCHANGED <<ret, tempLive, ioFault>>
       \/ /\ RIF_Fail
          /\ input' = input
    /\ UNCHANGED <<path, op, search, replace, disk, file_size, content, results,
                   chunks, tempDirs, stats, calls, base, committed, clobbered,
                   extAt>>
    /\ UNCHANGED <<im_ret, runVars>>

\* File::create(temp_output_file.path()) and BufWriter::new
RIF_Create ==
    /\ pc = "rif_create"
    /\ \/ /\ pc' = IF path = "root" \/ input # <<>> THEN "rif_line" ELSE "rif_flush"
          /\ UNCHANGED <<ret, tempLive, ioFault>>
       \/ RIF_Fail
    /\ UNCHANGED <<path, op, search, replace, disk, file_size, content, results,
                   input, chunks, tempDirs, stats, calls, base, committed,
                   clobbered, extAt>>
    /\ UNCHANGED <<im_ret, runVars>>

\* one iteration of the loop over reader.lines_with_endings()
RIF_Line ==
    /\ pc = "rif_line"
    /\ \/ /\ path = "file"
          /\ LET n == Len(chunks) + 1
                 step == process_line(n, input[n], results)
             IN \/ /\ results' = step.results
                   /\ chunks' = Append(chunks, step.chunk)
                   /\ pc' = IF n < Len(input) THEN "rif_line" ELSE "rif_flush"
                   /\ UNCHANGED <<ret, tempLive, ioFault>>
                \/ /\ results' = step.results
                   /\ chunks' = chunks
                   /\ RIF_Fail
       \/ /\ RIF_Fail
          /\ UNCHANGED <<results, chunks>>
    /\ UNCHANGED <<path, op, search, replace, disk, file_size, content, input,
                   tempDirs, stats, calls, base, committed, clobbered, extAt>>
    /\ UNCHANGED <<im_ret, runVars>>

\* writer.flush()
RIF_Flush ==
    /\ pc = "rif_flush"
    /\ \/ /\ pc' = "rif_persist"
          /\ UNCHANGED <<ret, tempLive, ioFault>>
       \/ RIF_Fail
    /\ UNCHANGED <<path, op, search, replace, disk, file_size, content, results,
                   input, chunks, tempDirs, stats, calls, base, committed,
                   clobbered, extAt>>
    /\ UNCHANGED <<im_ret, runVars>>

\* RIF_Persist copying the temporary file over the target instead of
\* renaming it: a failure leaves the target truncated
RIF_Persist_copy ==
    /\ pc = "rif_persist"
    /\ \/ /\ disk' = Flatten(chunks)
          /\ committed' = TRUE
          /\ clobbered' = (disk # FileOf(input))
          /\ tempLive' = FALSE
          /\ RIFReturn("Ok")
          /\ ioFault' = ioFault
       \/ /\ RIF_Fail
          /\ disk' = <<>>
          /\ UNCHANGED <<committed, clobbered>>
    /\ UNCHANGED <<path, op, search, replace, file_size, content, results,
                   input, chunks, tempDirs, stats, calls, base, extAt>>
    /\ UNCHANGED <<im_ret, runVars>>

\* temp_output_file.persist(file_path): the rename over the target
RIF_Persist ==
    /\ pc = "rif_persist"
    /\ \/ /\ disk' = Flatten(chunks)
          /\ committed' = TRUE
          /\ clobbered' = (disk # FileOf(input))
          /\ tempLive' = FALSE
          /\ RIFReturn("Ok")
          /\ ioFault' = ioFault
       \/ /\ RIF_Fail
          /\ UNCHANGED <<disk, committed, clobbered>>
    /\ UNCHANGED <<path, op, search, replace, file_size, content, results,
                   input, chunks, tempDirs, stats, calls, base, extAt>>
    /\ UNCHANGED <<im_ret, runVars>>

(***************************************************************************)
(* The caller's fold and the environment.                                  *)
(***************************************************************************)
\* the caller folds the slice it passed to replace_in_file
CalcStats ==
    /\ pc = "done"
    /\ op = "replace_in_file"
    /\ stats' = calculate_statistics(results)
    /\ pc' = "stats"
    /\ UNCHANGED <<path, op, search, replace, disk, file_size, content, results,
                   input, chunks, tempLive, tempDirs, ret, calls, base,
                   committed, clobbered, ioFault, extAt>>
    /\ UNCHANGED <<im_ret, runVars>>

\* another process replaces the content of the target by a rename
ExternalWrite ==
    /\ path = "file"
    /\ pc \notin {"done", "stats"}
    /\ Len(extAt) < MaxExternalWrites
    /\ \E c \in ExternalContents :
          /\ c # disk
          /\ disk' = c
          /\ base' = c
    /\ committed' = FALSE
    /\ extAt' = Append(extAt, pc)
    /\ UNCHANGED <<path, op, search, replace, pc, file_size, content, results,
                   input, chunks, tempLive, tempDirs, ret, stats, calls,
                   clobbered, ioFault>>
    /\ UNCHANGED <<im_ret, runVars>>

Next ==
    \/ RA_Size
    \/ IM_Read
    \/ IM_Temp
    \/ IM_Write
    \/ IM_Persist
    \/ CH_Search
    \/ RIF_Start
    \/ RIF_Open
    \/ RIF_Create
    \/ RIF_Line
    \/ RIF_Flush
    \/ RIF_Persist
    \/ ExternalWrite

Spec == Init /\ [][Next]_vars

NextSlice ==
    \/ RIF_Start
    \/ RIF_Open
    \/ RIF_Create
    \/ RIF_Line
    \/ RIF_Flush
    \/ RIF_Persist
    \/ CalcStats

SpecSlice == InitSlice /\ [][NextSlice]_vars


(***************************************************************************)
(* Validation (validation.rs) and find_and_replace (run.rs).               *)
(***************************************************************************)
MaxText == 3
MaxFiles == 2

\* Regex::new / FancyRegex::new succeed: the only malformed expression of
\* the model is one with a character class that is never closed
is_regex(text) == \A i \in 1..Len(text) : text[i] # "["

\* OverrideBuilder::add succeeds: the glob has no unclosed character class
is_glob(glob) == \A i \in 1..Len(glob) : glob[i] # "["

\* str::split
RECURSIVE split(_, _)
split(s, sep) ==
    IF \E i \in 1..Len(s) : s[i] = sep
    THEN LET i == CHOOSE i \in 1..Len(s) :
                     s[i] = sep /\ \A j \in 1..(i - 1) : s[j] # sep
         IN <<SubSeq(s, 1, i - 1)>> \o split(SubSeq(s, i + 1, Len(s)), sep)
    ELSE <<s>>

\* str::trim
RECURSIVE trim(_)
trim(s) ==
    IF s = <<>> THEN s
    ELSE IF Head(s) = " " THEN trim(Tail(s))
    ELSE IF s[Len(s)] = " " THEN trim(SubSeq(s, 1, Len(s) - 1))
    ELSE s

\* the loop of utils::add_overrides over the entries: the first glob that
\* does not parse ends it with the error
RECURSIVE add_entries(_, _)
add_entries(entries, prefix) ==
    IF entries = <<>> THEN "Ok"
    ELSE LET file == trim(Head(entries)) IN
         IF file # <<>> /\ ~is_glob(prefix \o file) THEN "Err"
         ELSE add_entries(Tail(entries), prefix)

\* utils::add_overrides
add_overrides(files, prefix) == add_entries(split(files, ","), prefix)

Success(v) == [tag |-> "Success", val |-> v]
ValidationErrors == [tag |-> "ValidationErrors"]

\* SimpleErrorHandler::push_error
push_error(errors, err_msg, detail) ==
    Append(errors, [title |-> err_msg, detail |-> detail])

handle_search_text_error(errors, detail) ==
    push_error(errors, "Failed to parse search text", detail)

handle_include_files_error(errors, detail) ==
    push_error(errors, "Failed to parse include globs", detail)

handle_exclude_files_error(errors, detail) ==
    push_error(errors, "Failed to parse exclude globs", detail)

\* SimpleErrorHandler::errors_str
errors_str(errors) ==
    IF errors = <<>> THEN NoneStr
    ELSE SomeStr(<<"Validation errors:">> \o errors)

parse_search_text_inner(search_text, fixed_strings, advanced_regex) ==
    IF fixed_strings THEN [ok |-> TRUE, val |-> Fixed(search_text)]
    ELSE IF advanced_regex
         THEN IF is_regex(search_text)
              THEN [ok |-> TRUE, val |-> PatternAdvanced(search_text)]
              ELSE [ok |-> FALSE]
         ELSE IF is_regex(search_text)
              THEN [ok |-> TRUE, val |-> Pattern(search_text)]
              ELSE [ok |-> FALSE]

\* parse_search_text: the result and the errors of the handler after it
parse_search_text(search_text, fixed_strings, advanced_regex, errors) ==
    LET r == parse_search_text_inner(search_text, fixed_strings, advanced_regex) IN
    IF r.ok THEN [result |-> Success(r.val), errors |-> errors]
    ELSE [result |-> ValidationErrors,
          errors |-> handle_search_text_error(errors, "regex parse error")]

\* parse_overrides returning at the first category that fails
parse_overrides_first(include_globs, exclude_globs, errors, build_ok) ==
    LET include_err == include_globs.some /\ add_overrides(include_globs.val, <<>>) = "Err"
        exclude_err == exclude_globs.some /\ add_overrides(exclude_globs.val, <<"!">>) = "Err"
    IN IF include_err
       THEN [result |-> ValidationErrors,
             errors |-> handle_include_files_error(errors, "glob error")]
       ELSE IF exclude_err
       THEN [result |-> ValidationErrors,
             errors |-> handle_exclude_files_error(errors, "glob error")]
       ELSE IF build_ok THEN [result |-> Success("overrides"), errors |-> errors]
       ELSE [result |-> [tag |-> "Err"], errors |-> errors]

\* parse_overrides in which a bad exclude glob is reported to the handler
\* and does not clear `success`
parse_overrides_lenient(include_globs, exclude_globs, errors, build_ok) ==
    LET include_err == include_globs.some /\ add_overrides(include_globs.val, <<>>) = "Err"
        after_include == IF include_err
                         THEN handle_include_files_error(errors, "glob error")
                         ELSE errors
        exclude_err == exclude_globs.some /\ add_overrides(exclude_globs.val, <<"!">>) = "Err"
        after_exclude == IF exclude_err
                         THEN handle_exclude_files_error(after_include, "glob error")
                         ELSE after_include
        success == ~include_err
    IN IF ~success THEN [result |-> ValidationErrors, errors |-> after_exclude]
       ELSE IF build_ok THEN [result |-> Success("overrides"), errors |-> after_exclude]
       ELSE [result |-> [tag |-> "Err"], errors |-> after_exclude]

\* parse_overrides: the result and the errors of the handler after it;
\* build_ok is the outcome of OverrideBuilder::build
parse_overrides(include_globs, exclude_globs, errors, build_ok) ==
    LET include_err == include_globs.some /\ add_overrides(include_globs.val, <<>>) = "Err"
        after_include == IF include_err
                         THEN handle_include_files_error(errors, "glob error")
                         ELSE errors
        exclude_err == exclude_globs.some /\ add_overrides(exclude_globs.val, <<"!">>) = "Err"
        after_exclude == IF exclude_err
                         THEN handle_exclude_files_error(after_include, "glob error")
                         ELSE after_include
        success == ~include_err /\ ~exclude_err
    IN IF ~success THEN [result |-> ValidationErrors, errors |-> after_exclude]
       ELSE IF build_ok THEN [result |-> Success("overrides"), errors |-> after_exclude]
       ELSE [result |-> [tag |-> "Err"], errors |-> after_exclude]

\* FileSearcher::new: whole_word and match_case are compiled into the
\* pattern; a literal that needs neither stays a Fixed string
compile(search_pattern, whole_word, match_case) ==
    IF ~whole_word /\ match_case THEN search_pattern
    ELSE [type |-> "PatternAdvanced", text |-> search_pattern.text,
          literal |-> search_pattern.literal,
          whole_word |-> whole_word, match_case |-> match_case]

\* str::lines: the lines without their terminators
str_lines(text) ==
    LET ls == lines_with_endings(text) IN [i \in 1..Len(ls) |-> ls[i].line]

\* the loop of find_and_replace_impl over content.lines()
RECURSIVE replace_lines(_, _, _, _)
replace_lines(ls, i, s, r) ==
    IF i > Len(ls) THEN <<>>
    ELSE (IF i > 1 THEN <<LF>> ELSE <<>>)
         \o (LET replaced_line == replacement_if_match(ls[i], s, r) IN
             IF replaced_line.some THEN replaced_line.val ELSE ls[i])
         \o replace_lines(ls, i + 1, s, r)

\* format!("Success: {num_files_replaced} file{prefix} updated")
summary(num_files_replaced) ==
    <<"Success: ", ToString(num_files_replaced), " file",
      IF num_files_replaced # 1 THEN "s" ELSE "", " updated">>

(***************************************************************************)
(* The inputs of find_and_replace and of the evaluator.                    *)
(***************************************************************************)
TextChars == {"a", "A", "_", "."}

Texts == UNION {[1..n -> TextChars] : n \in 0..MaxText}

SearchTexts == {<<>>, <<"a">>, <<"a", "a">>, <<".">>, <<"_", "a">>, <<"[">>}

ReplacementTexts == {<<>>, <<"a">>, <<".">>, <<"$", "a">>}

GlobTexts ==
    {NoneStr, SomeStr(<<"a">>), SomeStr(<<"[">>),
     SomeStr(<<" ", ",", "a">>), SomeStr(<<"a", ",", "[", ",", "[">>)}

\* the configurations of the calls of replacement_if_match
EvalConfigs ==
    [search_text : SearchTexts, replacement_text : ReplacementTexts,
     fixed_strings : BOOLEAN, advanced_regex : BOOLEAN,
     include_globs : {NoneStr}, exclude_globs : {NoneStr},
     match_whole_word : BOOLEAN, match_case : BOOLEAN]

\* the configurations of the calls of find_and_replace and
\* find_and_replace_text
RunConfigs ==
    [search_text : {<<"a">>, <<"[">>}, replacement_text : {<<".">>},
     fixed_strings : BOOLEAN, advanced_regex : {FALSE},
     include_globs : GlobTexts, exclude_globs : GlobTexts,
     match_whole_word : {FALSE}, match_case : {TRUE}]

TextContents ==
    {<<>>, <<"a">>, <<"a", LF>>, <<"a", CR, LF, "a">>, <<LF, "a">>,
     <<"_", "a", LF, LF>>}

FileContents == {<<"a">>, <<".">>}

Trees == UNION {[1..n -> FileContents] : n \in 0..MaxFiles}

NewTree(files) ==
    [files |-> files, before |-> files, visited |-> 0,
     num_files_replaced |-> 0, errors |-> <<>>]

NewValidation ==
    [ret |-> "none", search_pattern |-> [tag |-> "none"],
     overrides |-> [tag |-> "none"]]

\* the variables of the file rewrite engine
engineVars ==
    <<path, disk, file_size, results, input, chunks, tempLive, tempDirs,
      stats, calls, base, committed, clobbered, ioFault, extAt, im_ret>>

\* find_and_replace, find_and_replace_text, or a validated configuration
\* handed to replacement_if_match, is called with a fresh error handler
InitRun ==
    /\ \/ /\ op = "replacement_if_match"
          /\ config \in EvalConfigs
          /\ content \in Texts
          /\ tree = NoTree
       \/ /\ op = "find_and_replace_text"
          /\ config \in RunConfigs
          /\ content \in TextContents
          /\ tree = NoTree
       \/ /\ op = "find_and_replace"
          /\ config \in RunConfigs
          /\ content = <<>>
          /\ \E files \in Trees : tree = NewTree(files)
    /\ pc = "v_search"
    /\ handler = <<>>
    /\ validation = NewValidation
    /\ output = <<>>
    /\ ret = "running"
    /\ search = Fixed(<<>>)
    /\ replace = <<>>
    /\ path = "file"
    /\ disk = <<>>
    /\ base = <<>>
    /\ file_size = 0
    /\ results = <<>>
    /\ input = <<>>
    /\ chunks = <<>>
    /\ tempLive = FALSE
    /\ tempDirs = <<>>
    /\ stats = NoStats
    /\ calls = <<op>>
    /\ committed = FALSE
    /\ clobbered = FALSE
    /\ ioFault = FALSE
    /\ extAt = <<>>
    /\ im_ret = "none"
    /\ args = NoArgs
    /\ stdin_content = NoneStr

\* the position after a validation that succeeded
ProcessPc(o) ==
    CASE o = "find_and_replace" -> "walk"
      [] o = "find_and_replace_text" -> "text"
      [] OTHER -> "eval"

\* validate_search_configuration: parse_search_text
V_Search ==
    /\ pc = "v_search"
    /\ LET r == parse_search_text(config.search_text, config.fixed_strings,
                                  config.advanced_regex, handler)
       IN /\ validation' = [validation EXCEPT !.search_pattern = r.result]
          /\ handler' = r.errors
    /\ pc' = "v_overrides"
    /\ UNCHANGED <<op, search, replace, content, ret, config, output, tree>>
    /\ UNCHANGED engineVars
    /\ UNCHANGED cliVars

\* validate_search_configuration: parse_overrides; an error of
\* OverrideBuilder::build is returned by the ? operators up to the caller
V_Overrides ==
    /\ pc = "v_overrides"
    /\ \E build_ok \in BOOLEAN :
          LET r == parse_overrides(config.include_globs, config.exclude_globs,
                                   handler, build_ok)
          IN /\ handler' = r.errors
             /\ IF r.result.tag = "Err"
                THEN /\ validation' = [validation EXCEPT !.overrides = r.result,
                                                         !.ret = "Err"]
                     /\ pc' = "done"
                     /\ ret' = IF op = "replacement_if_match" THEN "Panic" ELSE "Err"
                ELSE /\ validation' = [validation EXCEPT !.overrides = r.result]
                     /\ pc' = "v_result"
                     /\ ret' = ret
    /\ UNCHANGED <<op, search, replace, content, config, output, tree>>
    /\ UNCHANGED engineVars
    /\ UNCHANGED cliVars

\* V_Result handing the parsed pattern on without whole_word and match_case
V_Result_plain ==
    /\ pc = "v_result"
    /\ IF validation.search_pattern.tag = "Success"
          /\ validation.overrides.tag = "Success"
       THEN /\ validation' = [validation EXCEPT !.ret = "Success"]
            /\ search' = validation.search_pattern.val
            /\ replace' = config.replacement_text
            /\ pc' = ProcessPc(op)
            /\ UNCHANGED <<ret, output>>
       ELSE /\ validation' = [validation EXCEPT !.ret = "ValidationErrors"]
            /\ pc' = "done"
            /\ IF errors_str(handler).some
               THEN /\ output' = errors_str(handler).val
                    /\ ret' = IF op = "replacement_if_match" THEN "Panic" ELSE "Err"
               ELSE /\ output' = output
                    /\ ret' = "Panic"
            /\ UNCHANGED <<search, replace>>
    /\ UNCHANGED <<op, content, config, handler, tree>>
    /\ UNCHANGED engineVars
    /\ UNCHANGED cliVars

\* V_Result going on to the processing whatever the validation found
V_Result_proceed ==
    /\ pc = "v_result"
    /\ validation' = [validation EXCEPT !.ret = "Success"]
    /\ search' = compile(IF validation.search_pattern.tag = "Success"
                         THEN validation.search_pattern.val
                         ELSE Fixed(config.search_text),
                         config.match_whole_word, config.match_case)
    /\ replace' = config.replacement_text
    /\ pc' = ProcessPc(op)
    /\ UNCHANGED <<ret, output>>
    /\ UNCHANGED <<op, content, config, handler, tree>>
    /\ UNCHANGED engineVars
    /\ UNCHANGED cliVars

\* the end of validate_search_configuration and the match on its value in
\* the caller: Success gives the compiled pattern and the replacement text,
\* ValidationErrors makes the caller bail with errors_str
V_Result ==
    /\ pc = "v_result"
    /\ IF validation.search_pattern.tag = "Success"
          /\ validation.overrides.tag = "Success"
       THEN /\ validation' = [validation EXCEPT !.ret = "Success"]
            /\ search' = compile(validation.search_pattern.val,
                                 config.match_whole_word, config.match_case)
            /\ replace' = config.replacement_text
            /\ pc' = ProcessPc(op)
            /\ UNCHANGED <<ret, output>>
       ELSE /\ validation' = [validation EXCEPT !.ret = "ValidationErrors"]
            /\ pc' = "done"
            /\ IF errors_str(handler).some
               THEN /\ output' = errors_str(handler).val
                    /\ ret' = IF op = "replacement_if_match" THEN "Panic" ELSE "Err"
               ELSE /\ output' = output
                    /\ ret' = "Panic"
            /\ UNCHANGED <<search, replace>>
    /\ UNCHANGED <<op, content, config, handler, tree>>
    /\ UNCHANGED engineVars
    /\ UNCHANGED cliVars

\* find_and_replace_impl, SearchType::String: every line of the content
\* goes through replacement_if_match
TextRun ==
    /\ pc = "text"
    /\ output' = replace_lines(str_lines(content), 1, search, replace)
    /\ ret' = "Ok"
    /\ pc' = "done"
    /\ UNCHANGED <<op, search, replace, content, config, handler, validation, tree>>
    /\ UNCHANGED engineVars
    /\ UNCHANGED cliVars

\* walk_files_and_replace: the next file of the directory is rewritten as a
\* whole, or its rewrite fails with an I/O error and the file is left
Walk ==
    /\ pc = "walk"
    /\ IF tree.visited = Len(tree.files)
       THEN /\ pc' = "summary"
            /\ tree' = tree
       ELSE /\ pc' = "walk"
            /\ LET k == tree.visited + 1
                   new == replacement_if_match(tree.files[k], search, replace)
               IN \/ /\ new.some
                     /\ tree' = [tree EXCEPT !.visited = k,
                                             !.files[k] = new.val,
                                             !.num_files_replaced = @ + 1]
                  \/ /\ ~new.some
                     /\ tree' = [tree EXCEPT !.visited = k]
                  \/ tree' = [tree EXCEPT !.visited = k,
                                          !.errors = Append(@, [path |-> k,
                                                               reason |-> "I/O error"])]
    /\ UNCHANGED <<op, search, replace, content, ret, config, handler,
                   validation, output>>
    /\ UNCHANGED engineVars
    /\ UNCHANGED cliVars

\* find_and_replace_impl, SearchType::Files: the summary
Summary ==
    /\ pc = "summary"
    /\ output' = summary(tree.num_files_replaced)
    /\ ret' = "Ok"
    /\ pc' = "done"
    /\ UNCHANGED <<op, search, replace, content, config, handler, validation, tree>>
    /\ UNCHANGED engineVars
    /\ UNCHANGED cliVars

\* replacement_if_match(text, &parsed.search, &parsed.replace)
Eval ==
    /\ pc = "eval"
    /\ output' = <<replacement_if_match(content, search, replace)>>
    /\ pc' = IF output'[1].some THEN "eval_again" ELSE "done"
    /\ ret' = IF output'[1].some THEN ret ELSE "Ok"
    /\ UNCHANGED <<op, search, replace, content, config, handler, validation, tree>>
    /\ UNCHANGED engineVars
    /\ UNCHANGED cliVars

\* replacement_if_match on the text the first call returned
EvalAgain ==
    /\ pc = "eval_again"
    /\ output' = Append(output, replacement_if_match(output[1].val, search, replace))
    /\ pc' = "done"
    /\ ret' = "Ok"
    /\ UNCHANGED <<op, search, replace, content, config, handler, validation, tree>>
    /\ UNCHANGED engineVars
    /\ UNCHANGED cliVars

NextRun ==
    \/ V_Search
    \/ V_Overrides
    \/ V_Result
    \/ TextRun
    \/ Walk
    \/ Summary
    \/ Eval
    \/ EvalAgain

SpecRun == InitRun /\ [][NextRun]_vars


(***************************************************************************)
(* calculate_statistics on candidates folded in several orders.            *)
(***************************************************************************)
\* candidates that went through a rewrite pass, with their outcomes
FoldCandidates ==
    [line_number : 1..MaxResults, line : {<<"a">>},
     line_ending : {"Lf"}, included : BOOLEAN,
     replacement : {<<"c">>},
     replace_result : {"None", "Success", ErrFileChanged}]

FoldSlices == UNION {[1..n -> FoldCandidates] : n \in 0..MaxResults}

\* the orders in which n candidates can reach the fold
Orders(n) == {f \in [1..n -> 1..n] : \A i, j \in 1..n : i # j => f[i] # f[j]}

\* a caller holds the candidates of a finished rewrite and folds them
InitFold ==
    /\ op = "calculate_statistics"
    /\ results \in FoldSlices
    /\ pc = "fold"
    /\ path = "file"
    /\ search = Fixed(<<>>)
    /\ replace = <<>>
    /\ disk = <<>>
    /\ base = <<>>
    /\ file_size = 0
    /\ content = <<>>
    /\ input = <<>>
    /\ chunks = <<>>
    /\ tempLive = FALSE
    /\ tempDirs = <<>>
    /\ ret = "running"
    /\ stats = NoStats
    /\ calls = <<op>>
    /\ committed = FALSE
    /\ clobbered = FALSE
    /\ ioFault = FALSE
    /\ extAt = <<>>
    /\ im_ret = "none"
    /\ config = NoConfig
    /\ handler = <<>>
    /\ validation = NoValidation
    /\ output = <<>>
    /\ tree = NoTree
    /\ args = NoArgs
    /\ stdin_content = NoneStr

\* calculate_statistics on the candidates in the order of the slice, on the
\* same candidates in another order, and on two parts of that order, each
\* part by its own call
FoldParts ==
    /\ pc = "fold"
    /\ \E order \in Orders(Len(results)), k \in 0..Len(results) :
          LET seq == [i \in 1..Len(results) |-> results[order[i]]] IN
          stats' = [slice |-> calculate_statistics(results),
                    whole |-> calculate_statistics(seq),
                    parts |-> <<calculate_statistics(SubSeq(seq, 1, k)),
                                calculate_statistics(SubSeq(seq, k + 1, Len(seq)))>>]
    /\ pc' = "parts"
    /\ UNCHANGED <<path, op, search, replace, disk, file_size, content, results,
                   input, chunks, tempLive, tempDirs, ret, calls, base,
                   committed, clobbered, ioFault, extAt>>
    /\ UNCHANGED <<im_ret, runVars>>

NextFold == FoldParts

SpecFold == InitFold /\ [][NextFold]_vars


(***************************************************************************)
(* The line reader on byte streams, and the copy loop of replace_in_file.  *)
(***************************************************************************)
MaxStream == 4

\* the byte streams a file can hold: text, \r and \n in any arrangement
Streams == UNION {[1..n -> {"a", CR, LF}] : n \in 0..MaxStream}

\* a file is opened for the rewrite pass with no candidate on any line
InitRead ==
    /\ op = "lines_with_endings"
    /\ disk \in Streams
    /\ base = disk
    /\ pc = "read"
    /\ path = "file"
    /\ search = Fixed(<<>>)
    /\ replace = <<>>
    /\ results = <<>>
    /\ file_size = 0
    /\ content = <<>>
    /\ input = <<>>
    /\ chunks = <<>>
    /\ tempLive = FALSE
    /\ tempDirs = <<>>
    /\ ret = "running"
    /\ stats = NoStats
    /\ calls = <<op>>
    /\ committed = FALSE
    /\ clobbered = FALSE
    /\ ioFault = FALSE
    /\ extAt = <<>>
    /\ im_ret = "none"
    /\ config = NoConfig
    /\ handler = <<>>
    /\ validation = NoValidation
    /\ output = <<>>
    /\ tree = NoTree
    /\ args = NoArgs
    /\ stdin_content = NoneStr

\* reader.lines_with_endings() over the whole stream
ReadLines ==
    /\ pc = "read"
    /\ input' = lines_with_endings(disk)
    /\ pc' = "copy"
    /\ UNCHANGED <<path, op, search, replace, disk, file_size, content, results,
                   chunks, tempLive, tempDirs, ret, stats, calls, base,
                   committed, clobbered, ioFault, extAt>>
    /\ UNCHANGED <<im_ret, runVars>>

\* CopyLines writing the lines without their terminators
CopyLines_bare ==
    /\ pc = "copy"
    /\ chunks' = [n \in 1..Len(input) |-> input[n].line]
    /\ pc' = "done"
    /\ UNCHANGED <<path, op, search, replace, disk, file_size, content, results,
                   input, tempLive, tempDirs, ret, stats, calls, base,
                   committed, clobbered, ioFault, extAt>>
    /\ UNCHANGED <<im_ret, runVars>>

\* the loop of replace_in_file over the lines read: each line is written
\* followed by line_ending.as_bytes()
CopyLines ==
    /\ pc = "copy"
    /\ chunks' = [n \in 1..Len(input) |-> process_line(n, input[n], results).chunk]
    /\ pc' = "done"
    /\ UNCHANGED <<path, op, search, replace, disk, file_size, content, results,
                   input, tempLive, tempDirs, ret, stats, calls, base,
                   committed, clobbered, ioFault, extAt>>
    /\ UNCHANGED <<im_ret, runVars>>

NextRead ==
    \/ ReadLines
    \/ CopyLines

SpecRead == InitRead /\ [][NextRead]_vars


(***************************************************************************)
(* The command line (main.rs).                                             *)
(***************************************************************************)
\* the messages of validate_args, their backquotes written as apostrophes
SearchTextEmpty == "Search text must not be empty"
MustEitherSpecify ==
    "You must either specify either replacement text ('frep before after') or use --delete to delete matches '(frep before --delete)'"
CannotSpecifyBoth ==
    "You cannot specify both replacement text and the --delete flag. Use either replacement text ('frep before after') or the --delete flag ('frep before --delete')"
NoHiddenWithStdin == "Cannot use --hidden flag with stdin input"
NoIncludeWithStdin == "Cannot use --include-files with stdin input"
NoExcludeWithStdin == "Cannot use --exclude-files with stdin input"

Bail(msg) == [ok |-> FALSE, msg |-> msg]

\* validate_args without the check that rejects a replacement text given
\* together with --delete
validate_args_both(a, stdin) ==
    IF a.search_text = <<>> THEN Bail(SearchTextEmpty)
    ELSE IF ~a.replace_text.some /\ ~a.delete THEN Bail(MustEitherSpecify)
    ELSE IF stdin.some /\ a.hidden THEN Bail(NoHiddenWithStdin)
    ELSE IF stdin.some /\ a.include_files.some THEN Bail(NoIncludeWithStdin)
    ELSE IF stdin.some /\ a.exclude_files.some THEN Bail(NoExcludeWithStdin)
    ELSE [ok |-> TRUE]

\* validate_args: the first check that fails gives the message
validate_args(a, stdin) ==
    IF a.search_text = <<>> THEN Bail(SearchTextEmpty)
    ELSE IF ~a.replace_text.some /\ ~a.delete THEN Bail(MustEitherSpecify)
    ELSE IF a.replace_text.some /\ a.delete THEN Bail(CannotSpecifyBoth)
    ELSE IF stdin.some /\ a.hidden THEN Bail(NoHiddenWithStdin)
    ELSE IF stdin.some /\ a.include_files.some THEN Bail(NoIncludeWithStdin)
    ELSE IF stdin.some /\ a.exclude_files.some THEN Bail(NoExcludeWithStdin)
    ELSE [ok |-> TRUE]

\* the command lines of the model
ArgSets ==
    [search_text : {<<>>, <<"a">>},
     replace_text : {NoneStr, SomeStr(<<>>), SomeStr(<<"b">>)},
     delete : BOOLEAN, hidden : BOOLEAN,
     include_files : {NoneStr, SomeStr(<<"a">>)},
     exclude_files : {NoneStr, SomeStr(<<"a">>)}]

\* detect_and_read_stdin: no content, or a content that is not blank
StdinContents == {NoneStr, SomeStr(<<"a", LF>>)}

\* main has parsed the command line and read the standard input
InitArgs ==
    /\ op = "main"
    /\ args \in ArgSets
    /\ stdin_content \in StdinContents
    /\ pc = "validate_args"
    /\ path = "file"
    /\ search = Fixed(<<>>)
    /\ replace = <<>>
    /\ results = <<>>
    /\ disk = <<>>
    /\ base = <<>>
    /\ file_size = 0
    /\ content = <<>>
    /\ input = <<>>
    /\ chunks = <<>>
    /\ tempLive = FALSE
    /\ tempDirs = <<>>
    /\ ret = "running"
    /\ stats = NoStats
    /\ calls = <<op>>
    /\ committed = FALSE
    /\ clobbered = FALSE
    /\ ioFault = FALSE
    /\ extAt = <<>>
    /\ im_ret = "none"
    /\ config = NoConfig
    /\ handler = <<>>
    /\ validation = NoValidation
    /\ output = <<>>
    /\ tree = NoTree

\* main: validate_args(&args, stdin_content.as_ref())?
ValidateArgs ==
    /\ pc = "validate_args"
    /\ LET r == validate_args(args, stdin_content) IN
       IF r.ok
       THEN /\ pc' = "config"
            /\ UNCHANGED <<ret, output>>
       ELSE /\ pc' = "done"
            /\ ret' = "Err"
            /\ output' = <<r.msg>>
    /\ UNCHANGED <<op, search, replace, content, config, handler, validation, tree>>
    /\ UNCHANGED engineVars
    /\ UNCHANGED cliVars

\* main: search_config_from_args and the choice between find_and_replace_text
\* and find_and_replace
ConfigFromArgs ==
    /\ pc = "config"
    /\ config' = [search_text |-> args.search_text,
                  replacement_text |-> IF args.replace_text.some
                                       THEN args.replace_text.val ELSE <<>>]
    /\ calls' = Append(calls, IF stdin_content.some THEN "find_and_replace_text"
                              ELSE "find_and_replace")
    /\ pc' = "done"
    /\ ret' = "Ok"
    /\ UNCHANGED <<op, search, replace, content, handler, validation, output, tree>>
    /\ UNCHANGED <<path, disk, file_size, results, input, chunks, tempLive,
                   tempDirs, stats, base, committed, clobbered, ioFault, extAt,
                   im_ret>>
    /\ UNCHANGED cliVars

NextArgs ==
    \/ ValidateArgs
    \/ ConfigFromArgs

SpecArgs == InitArgs /\ [][NextArgs]_vars


(***************************************************************************)
(* Properties.                                                             *)
(***************************************************************************)
Last(s) == s[Len(s)]

Finished == pc \in {"done", "stats"}

\* the lines of the content last put at the path by someone else
BaseLines == lines_with_endings(base)

\* the rewrite that ran last is the streaming one
Streaming == Last(calls) = "replace_in_file"

\* C1: a reader of the target path sees, at every moment, either the whole
\* content put there before the rewrite or the whole rewritten content (every
\* line of the input written, or the whole replaced text), and after a
\* rewrite that failed with an I/O error the path holds the prior content
T_C1 ==
    /\ ~committed => disk = base
    /\ committed =>
          /\ disk = Flatten(chunks)
          /\ Streaming => Len(chunks) = Len(input)
          /\ ~Streaming => chunks = <<str_replace(content, search.text, replace)>>
    /\ ret = "Err" => ~committed /\ disk = base

\* the streaming rewrite failed after part of the output was written
W_C1 ==
    /\ pc = "done"
    /\ ret = "Err"
    /\ Streaming
    /\ chunks # <<>>
    /\ Len(chunks) < Len(input)
    /\ Flatten(chunks) # base
    /\ disk = base

\* C2 as stated: whenever the rename replaces content that another process
\* put at the path after the engine's read, an error is reported
CX_C2 ==
    clobbered =>
        \/ ret = "Err"
        \/ \E i \in 1..Len(results) : results[i].replace_result = ErrFileChanged

\* another process replaced the content between the streaming scan and the
\* opening of the file by the rewrite pass
ExternalInGap == \E k \in 1..Len(extAt) : extAt[k] \in {"rif_start", "rif_open"}

\* C2 amended: in the streaming path a change made by another process after
\* the scan and before the rewrite pass opens the file is detected line by
\* line: a candidate whose line differs in the new content gets the error
\* "File changed since last search" and that line stays as the other process
\* wrote it, and a candidate is replaced only where the line still equals
\* the scanned one
T_C2 ==
    (pc = "done" /\ Streaming /\ committed /\ ~clobbered) =>
        /\ Len(chunks) = Len(BaseLines)
        /\ \A i \in 1..Len(results) :
              LET n == results[i].line_number IN
              n \in 1..Len(BaseLines) =>
                  IF BaseLines[n].line # results[i].line
                  THEN /\ results[i].replace_result = ErrFileChanged
                       /\ chunks[n] = LineBytes(BaseLines[n])
                  ELSE results[i].replace_result = "Success"

\* the content was replaced in the gap, a scanned line changed, and the
\* rewrite kept it and reported the candidate
W_C2 ==
    /\ pc = "done"
    /\ Streaming
    /\ committed
    /\ ~clobbered
    /\ ExternalInGap
    /\ \E i \in 1..Len(results) :
          /\ results[i].line_number \in 1..Len(BaseLines)
          /\ BaseLines[results[i].line_number].line # results[i].line
          /\ results[i].replace_result = ErrFileChanged


\* no later candidate of the slice carries the line number of candidate i
LastForLine(i) ==
    \A j \in (i + 1)..Len(results) : results[j].line_number # results[i].line_number

\* candidate i names a line of the file whose content differs from the
\* content cached in the candidate
Mismatched(i) ==
    /\ path = "file"
    /\ results[i].line_number \in 1..Len(BaseLines)
    /\ BaseLines[results[i].line_number].line # results[i].line

\* candidate i names a line of the file whose content equals the content
\* cached in the candidate
Matching(i) ==
    /\ path = "file"
    /\ results[i].line_number \in 1..Len(BaseLines)
    /\ BaseLines[results[i].line_number].line = results[i].line

\* C3 as stated, for calls that meet no I/O error: after replace_in_file
\* every candidate whose line exists and differs from the cached content has
\* the outcome "File changed since last search", its line was written
\* unchanged, and the call returned Ok
CX_C3 ==
    (Finished /\ ~ioFault) =>
        \A i \in 1..Len(results) :
            Mismatched(i) =>
                /\ results[i].replace_result = ErrFileChanged
                /\ ret = "Ok"
                /\ results[i].line_number <= Len(chunks)
                /\ chunks[results[i].line_number] =
                      LineBytes(BaseLines[results[i].line_number])

\* C3 amended: a candidate whose line exists and differs from the cached
\* content never gets Success and its replacement is never written; when the
\* call meets no I/O error it returns Ok, and such a candidate, if no later
\* candidate of the slice carries its line number, has the outcome "File
\* changed since last search" and its line is written unchanged
T_C3 ==
    /\ \A i \in 1..Len(results) :
          Mismatched(i) =>
              /\ results[i].replace_result \in {"None", ErrFileChanged}
              /\ results[i].line_number <= Len(chunks) /\ LastForLine(i) =>
                    /\ results[i].replace_result = ErrFileChanged
                    /\ chunks[results[i].line_number] =
                          LineBytes(BaseLines[results[i].line_number])
    /\ (Finished /\ path = "file" /\ ~ioFault) =>
          /\ ret = "Ok"
          /\ results # <<>> => committed /\ Len(chunks) = Len(BaseLines)

\* the call returned Ok with a candidate reported as changed, next to a
\* candidate that was replaced
W_C3 ==
    /\ pc = "done"
    /\ ret = "Ok"
    /\ committed
    /\ \E i, j \in 1..Len(results) :
          /\ Mismatched(i)
          /\ results[i].replace_result = ErrFileChanged
          /\ results[j].replace_result = "Success"
          /\ disk # base

\* C4 as stated, for calls that meet no I/O error: after replace_in_file a
\* candidate has Success exactly when its line exists and equals the cached
\* content, and then the line written is the cached replacement followed by
\* the terminator read from disk
CX_C4 ==
    (Finished /\ ~ioFault) =>
        \A i \in 1..Len(results) :
            /\ results[i].replace_result = "Success" <=> Matching(i)
            /\ Matching(i) =>
                  /\ results[i].line_number <= Len(chunks)
                  /\ chunks[results[i].line_number] =
                        results[i].replacement
                            \o as_bytes(BaseLines[results[i].line_number].ending)

\* C4 amended: a candidate has Success only if its line exists, equals the
\* cached content and no later candidate of the slice carries its line
\* number; when the call meets no I/O error these conditions are also
\* sufficient; the line written for a successful candidate is its cached
\* replacement followed by the terminator read from disk
T_C4 ==
    \A i \in 1..Len(results) :
        /\ results[i].replace_result = "Success" =>
              /\ Matching(i)
              /\ LastForLine(i)
              /\ results[i].line_number <= Len(chunks) =>
                    chunks[results[i].line_number] =
                        results[i].replacement
                            \o as_bytes(BaseLines[results[i].line_number].ending)
        /\ (Finished /\ ~ioFault /\ Matching(i) /\ LastForLine(i)) =>
              /\ results[i].replace_result = "Success"
              /\ results[i].line_number <= Len(chunks)

\* a candidate was replaced on a line ending in \r\n by a replacement that
\* differs from the line
W_C4 ==
    /\ pc = "done"
    /\ ret = "Ok"
    /\ \E i \in 1..Len(results) :
          /\ results[i].replace_result = "Success"
          /\ BaseLines[results[i].line_number].ending = "CrLf"
          /\ results[i].replacement # results[i].line
          /\ chunks[results[i].line_number] = results[i].replacement \o <<CR, LF>>


\* the rewrite pass is writing, or has renamed, the output of `input`
Rewriting ==
    /\ Streaming
    /\ pc \in {"rif_line", "rif_flush", "rif_persist"} \/ committed

\* some candidate carries line number n
HasCandidate(n) == \E i \in 1..Len(results) : results[i].line_number = n

\* the terminator kinds of a sequence of lines
EndingsOf(ls) == [n \in 1..Len(ls) |-> ls[n].ending]

\* C5 as stated: the rewritten file has the lines of the input, each with
\* its original terminator kind, and every line without a candidate is
\* byte-for-byte the input line
CX_C5 ==
    (pc = "done" /\ Streaming /\ committed) =>
        LET out == lines_with_endings(disk) IN
        /\ Len(out) = Len(input)
        /\ EndingsOf(out) = EndingsOf(input)
        /\ \A n \in 1..Len(input) : ~HasCandidate(n) => out[n] = input[n]

\* the text written for line n keeps the line structure: it holds no \n,
\* does not end in \r before a \n terminator, and is not empty on an
\* unterminated last line
KeepsStructure(body, ending) ==
    /\ \A k \in 1..Len(body) : body[k] # LF
    /\ ending = "Lf" /\ body # <<>> => Last(body) # CR
    /\ ending = "None" => body # <<>>

\* the text written for line n, without the terminator
WrittenText(n) ==
    SubSeq(chunks[n], 1, Len(chunks[n]) - Len(as_bytes(input[n].ending)))

\* C5 amended: the rewrite pass writes, for every line read, a text followed
\* by exactly the terminator bytes read with that line; the text is the line
\* itself when no candidate carries its number, and otherwise the line or a
\* candidate's replacement; the rewritten file therefore has the same number
\* of lines with the same terminator kinds whenever every text written keeps
\* the line structure
T_C5 ==
    Rewriting =>
        /\ \A n \in 1..Len(chunks) :
              /\ \E body \in {input[n].line}
                        \cup {results[i].replacement : i \in 1..Len(results)} :
                    chunks[n] = body \o as_bytes(input[n].ending)
              /\ ~HasCandidate(n) => chunks[n] = LineBytes(input[n])
        /\ committed =>
              /\ Len(chunks) = Len(input)
              /\ (\A n \in 1..Len(input) :
                     KeepsStructure(WrittenText(n), input[n].ending))
                  => /\ Len(lines_with_endings(disk)) = Len(input)
                     /\ EndingsOf(lines_with_endings(disk)) = EndingsOf(input)


\* a file of mixed terminators was rewritten with one line replaced and one
\* line copied
W_C5 ==
    /\ pc = "done"
    /\ Streaming
    /\ committed
    /\ Len(input) = 2
    /\ input[1].ending # input[2].ending
    /\ \E i \in 1..Len(results) : results[i].replace_result = "Success"
    /\ \E n \in 1..Len(input) : ~HasCandidate(n)
    /\ disk # FileOf(input)
    /\ EndingsOf(lines_with_endings(disk)) = EndingsOf(input)


\* the pattern does not occur in the content the file had when op was
\* called (the empty pattern occurs nowhere)
NoOccurrence ==
    \/ search.text = <<>>
    \/ \A k \in 1..(Len(base) - Len(search.text) + 1) :
          SubSeq(base, k, k + Len(search.text) - 1) # search.text

\* C6: on a file in which the pattern does not occur, and which no other
\* process replaces, replace_all_in_file, replace_in_memory and
\* replace_chunked create no temporary file, write nothing, rename nothing
\* and leave the file as it was, and they return Ok(false) unless an I/O
\* operation fails
T_C6 ==
    (path = "file" /\ extAt = <<>> /\ NoOccurrence) =>
        /\ disk = base
        /\ tempDirs = <<>>
        /\ chunks = <<>>
        /\ ~committed
        /\ ret \in {"running", "OkFalse", "Err"}
        /\ (pc = "done" /\ ~ioFault) => ret = "OkFalse"
        /\ ret = "Err" => ioFault

\* replace_all_in_file went through the streaming path on a file with \r\n
\* endings in which the pattern does not occur, and returned Ok(false)
W_C6 ==
    /\ pc = "done"
    /\ op = "replace_all_in_file"
    /\ Last(calls) = "replace_chunked"
    /\ path = "file"
    /\ extAt = <<>>
    /\ NoOccurrence
    /\ search.text # <<>>
    /\ Len(base) >= 3
    /\ \E k \in 1..Len(base) : base[k] = CR
    /\ ret = "OkFalse"
    /\ disk = base

\* the indices of the candidates of the slice that are not successes,
\* up to index i
Failures(i) == {j \in 1..i : results[j].replace_result # "Success"}

\* C7: calculate_statistics on N included candidates that went through the
\* rewrite pass counts every candidate once: num_successes is the number of
\* candidates with outcome Success, errors holds the others in order, and
\* num_successes + Len(errors) = N
T_C7 ==
    (pc = "stats" /\ \A i \in 1..Len(results) : results[i].included) =>
        /\ ~stats.panicked
        /\ stats.num_successes + Len(stats.errors) = Len(results)
        /\ stats.num_successes =
              Cardinality({i \in 1..Len(results) : results[i].replace_result = "Success"})
        /\ \A i \in Failures(Len(results)) :
              stats.errors[Cardinality(Failures(i))] =
                  IF results[i].replace_result = "None"
                  THEN [results[i] EXCEPT !.replace_result = ErrNotFound]
                  ELSE results[i]

\* a slice of two included candidates was folded into one success and one
\* error
W_C7 ==
    /\ pc = "stats"
    /\ Len(results) = 2
    /\ \A i \in 1..Len(results) : results[i].included
    /\ ~stats.panicked
    /\ stats.num_successes = 1
    /\ Len(stats.errors) = 1

\* the number of lines of the file replace_in_file was called on
FileLines == IF path = "file" THEN Len(BaseLines) ELSE 0

\* C8: a candidate whose line number is not a line of the file (0, or beyond
\* the last line) keeps no outcome through replace_in_file, is not counted in
\* num_successes, and is reported by calculate_statistics in errors with the
\* reason "Failed to find search result in file"
T_C8 ==
    \A i \in 1..Len(results) :
        results[i].line_number \notin 1..FileLines =>
            /\ results[i].replace_result = "None"
            /\ (pc = "stats" /\ ~stats.panicked) =>
                  /\ stats.errors[Cardinality(Failures(i))] =
                        [results[i] EXCEPT !.replace_result = ErrNotFound]
                  /\ stats.num_successes <=
                        Cardinality({j \in 1..Len(results) :
                                        results[j].line_number \in 1..FileLines})
                  /\ ErrNotFound # ErrFileChanged

\* the file is shorter than a candidate's line number, the rewrite was
\* renamed into place with another candidate replaced, and the statistics
\* report the candidate
W_C8 ==
    /\ pc = "stats"
    /\ ret = "Ok"
    /\ ~stats.panicked
    /\ FileLines >= 1
    /\ stats.num_successes = 1
    /\ \E i \in 1..Len(results) :
          /\ results[i].line_number > FileLines
          /\ \E k \in 1..Len(stats.errors) :
                stats.errors[k] = [results[i] EXCEPT !.replace_result = ErrNotFound]

\* C9 as stated: for a path without a parent directory no temporary file is
\* ever created
CX_C9 == path = "root" => tempDirs = <<>>

\* C10 as stated: replace_chunked leaves the content and returns the boolean
\* that replace_in_memory gives for the same content, pattern and
\* replacement text
CX_C10 ==
    (pc = "done" /\ op = "replace_chunked" /\ path = "file"
        /\ ~ioFault /\ extAt = <<>>) =>
        LET whole == replacement_if_match(base, search, replace) IN
        /\ disk = IF whole.some THEN whole.val ELSE base
        /\ ret = IF whole.some THEN "OkTrue" ELSE "OkFalse"

\* the number of entries of s that equal x
Count(s, x) == Cardinality({i \in 1..Len(s) : s[i] = x})

\* C11: in replace_all_in_file, replace_in_memory is entered exactly when the
\* size of the file was read and is at most MAX_FILE_SIZE (a file of exactly
\* that size included); replace_chunked is entered exactly when
\* replace_in_memory was not entered or returned an error; each of them is
\* entered at most once; an error of replace_in_memory is never the value
\* returned to the caller; and after replace_in_memory returned Ok(true) or
\* Ok(false) that value is returned and replace_chunked is not entered
T_C11 ==
    (op = "replace_all_in_file" /\ pc # "ra_size") =>
        /\ Count(calls, "replace_in_memory") > 0 <=>
              (file_size # NoSize /\ file_size <= MAX_FILE_SIZE)
        /\ Count(calls, "replace_in_memory") <= 1
        /\ Count(calls, "replace_chunked") <= 1
        /\ Count(calls, "replace_chunked") > 0 <=>
              (Count(calls, "replace_in_memory") = 0 \/ im_ret = "Err")
        /\ (im_ret = "Err" /\ ret # "running") =>
              Last(calls) \in {"replace_chunked", "replace_in_file"}
        /\ im_ret \in {"OkTrue", "OkFalse"} =>
              /\ pc = "done"
              /\ ret = im_ret
              /\ Count(calls, "replace_chunked") = 0

\* a file of exactly MAX_FILE_SIZE bytes went to replace_in_memory, which
\* failed, and the streaming path rewrote the file
W_C11 ==
    /\ op = "replace_all_in_file"
    /\ file_size = MAX_FILE_SIZE
    /\ im_ret = "Err"
    /\ calls = <<"replace_all_in_file", "replace_in_memory", "replace_chunked",
                 "replace_in_file">>
    /\ pc = "done"
    /\ ret = "OkTrue"
    /\ committed

(***************************************************************************)
(* Properties of the evaluator, the validation and find_and_replace.       *)
(***************************************************************************)
\* replacement_if_match was called with the validated configuration; its
\* value is output[1]
Evaluated ==
    /\ op = "replacement_if_match"
    /\ validation.ret = "Success"
    /\ output # <<>>

\* the search text of the configuration occurs in text at position i, each
\* character taken as the mode and match_case of the configuration say
Occurs(text, i) ==
    LET m == Len(config.search_text) IN
    /\ i + m - 1 <= Len(text)
    /\ \A k \in 1..m :
          LET p == config.search_text[k]
              c == text[i + k - 1]
          IN IF ~config.fixed_strings /\ p = "." THEN c # LF
             ELSE IF config.match_case THEN p = c
             ELSE to_lowercase(p) = to_lowercase(c)

\* the occurrence at i is not adjacent to a word character
Bounded(text, i) ==
    LET m == Len(config.search_text) IN
    /\ Occurs(text, i)
    /\ i = 1 \/ text[i - 1] \notin {"a", "A", "_"}
    /\ i + m > Len(text) \/ text[i + m] \notin {"a", "A", "_"}

\* the occurrences a left-to-right pass takes out of the set starts: an
\* occurrence is taken exactly when it does not overlap one taken before it
Taken(starts, m) ==
    CHOOSE S \in SUBSET starts :
        \A i \in starts : i \in S <=> \A j \in S : j < i => j + m <= i

\* text with the occurrences of length m that start in S replaced by ins
Substituted(text, S, m, ins) ==
    Flatten([k \in 1..Len(text) |->
                IF k \in S THEN ins
                ELSE IF \E j \in S : j < k /\ k < j + m THEN <<>>
                ELSE <<text[k]>>])

\* C12: replacement_if_match returns None whenever the search text is empty,
\* in literal and in regex mode and with any whole-word and case flags, and
\* whenever the text to search is empty; a scan with an empty search text
\* yields no search result and no candidate
T_C12 ==
    /\ (Evaluated /\ (config.search_text = <<>> \/ content = <<>>)) =>
          output = <<NoneStr>>
    /\ (validation.ret = "Success" /\ config.search_text = <<>>) =>
          /\ search_file(content, search) = <<>>
          /\ replacement_results(content, search, replace) = <<>>
          /\ \A k \in 1..Len(tree.files) :
                /\ search_file(tree.files[k], search) = <<>>
                /\ tree.files[k] = tree.before[k]

\* an empty regular expression with whole-word matching and without case
\* was applied to a text that is not empty
W_C12 ==
    /\ Evaluated
    /\ pc = "done"
    /\ config.search_text = <<>>
    /\ ~config.fixed_strings
    /\ config.match_whole_word
    /\ ~config.match_case
    /\ Len(content) = MaxText
    /\ content[1] = "."
    /\ output = <<NoneStr>>

\* C13: with match_whole_word on, in literal, regex and advanced regex mode,
\* replacement_if_match replaces exactly the occurrences of the pattern that
\* are not adjacent on either side to a word character (those bounded by the
\* start or the end of the text or by punctuation), leaves every other
\* character as it is, and returns None for a text whose occurrences are all
\* inside a larger word
T_C13 ==
    (Evaluated /\ config.match_whole_word /\ config.search_text # <<>>) =>
        LET B == {i \in 1..Len(content) : Bounded(content, i)} IN
        /\ output[1].some <=> B # {}
        /\ output[1].some =>
              output[1].val =
                  Substituted(content, B, Len(config.search_text),
                              expand(config.replacement_text, <<>>))

\* a literal pattern with whole-word matching was replaced where it stands
\* between the start of the text and punctuation
W_C13 ==
    /\ Evaluated
    /\ config.match_whole_word
    /\ config.fixed_strings
    /\ config.match_case
    /\ config.search_text = <<"a">>
    /\ config.replacement_text = <<".">>
    /\ content = <<"a", ".", "_">>
    /\ output[1] = SomeStr(<<".", ".", "_">>)

\* the search text occurs in text at position i, letter case ignored
OccursFolded(text, i) ==
    LET m == Len(config.search_text) IN
    /\ i + m - 1 <= Len(text)
    /\ \A k \in 1..m :
          to_lowercase(config.search_text[k]) = to_lowercase(text[i + k - 1])

EvaluatedTwice ==
    /\ Evaluated
    /\ pc = "done"
    /\ Len(output) = 2

\* the replacement text has no reference to a capture group
NoGroupReference ==
    \A k \in 1..Len(config.replacement_text) : config.replacement_text[k] # "$"

SharesNothing ==
    \A k \in 1..Len(config.replacement_text) :
        \A j \in 1..Len(config.search_text) :
            ~atom_matches(config.search_text[j], config.replacement_text[k],
                          [search EXCEPT !.match_case = config.match_case])

\* the pattern is one character that stands for itself
SingleLiteral ==
    /\ Len(config.search_text) = 1
    /\ config.fixed_strings \/ config.search_text[1] # "."

SearchTextFails ==
    ~config.fixed_strings /\ \E i \in 1..Len(config.search_text) : config.search_text[i] = "["

\* the list of globs is given and one of its globs has an unclosed class
GlobsFail(globs) == globs.some /\ \E i \in 1..Len(globs.val) : globs.val[i] = "["

\* the titles of the errors the handler holds, in order
Titles == [i \in 1..Len(handler) |-> handler[i].title]

\* the titles of the categories that fail, in the order search text, include
\* globs, exclude globs
FailingTitles ==
    (IF SearchTextFails THEN <<"Failed to parse search text">> ELSE <<>>)
    \o (IF GlobsFail(config.include_globs)
        THEN <<"Failed to parse include globs">> ELSE <<>>)
    \o (IF GlobsFail(config.exclude_globs)
        THEN <<"Failed to parse exclude globs">> ELSE <<>>)

\* C16: once validate_search_configuration has checked the search text and
\* the globs, the handler holds exactly one error for each category that
\* fails and none for a category that passes, each under the title of its
\* category, in the order search text, include globs, exclude globs; after
\* the check of the search text alone it holds the search-text error or
\* nothing
T_C16 ==
    /\ (op # "replace_in_file" /\ config # NoConfig /\ pc = "v_overrides") =>
          Titles = (IF SearchTextFails THEN <<"Failed to parse search text">>
                    ELSE <<>>)
    /\ (config # NoConfig /\ pc \notin {"v_search", "v_overrides"}) =>
          Titles = FailingTitles

\* the search text, the include globs and the exclude globs all fail and the
\* handler holds the three errors
W_C16 ==
    /\ pc = "done"
    /\ SearchTextFails
    /\ GlobsFail(config.include_globs)
    /\ GlobsFail(config.exclude_globs)
    /\ Len(handler) = 3
    /\ validation.ret = "ValidationErrors"

\* C17: when validate_search_configuration returns Ok, it returns Success
\* exactly when the search text and both lists of globs passed and the
\* handler holds no error (errors_str is None), and ValidationErrors exactly
\* when the handler holds at least one error (errors_str is Some)
T_C17 ==
    validation.ret \in {"Success", "ValidationErrors"} =>
        /\ validation.ret = "Success" <=>
              /\ ~SearchTextFails
              /\ ~GlobsFail(config.include_globs)
              /\ ~GlobsFail(config.exclude_globs)
        /\ validation.ret = "Success" <=> handler = <<>>
        /\ validation.ret = "Success" <=> ~errors_str(handler).some
        /\ validation.ret = "ValidationErrors" <=> errors_str(handler).some

\* only the exclude globs fail and the validation returned ValidationErrors
\* with that one error
W_C17 ==
    /\ validation.ret = "ValidationErrors"
    /\ ~SearchTextFails
    /\ ~GlobsFail(config.include_globs)
    /\ GlobsFail(config.exclude_globs)
    /\ Titles = <<"Failed to parse exclude globs">>
    /\ errors_str(handler).some

\* C18 as stated: in fixed-strings mode the validation records no
\* search-text error whatever the search text, every character of the search
\* text matches only itself (with or without case, as match_case says), and
\* the replacement text is inserted verbatim for every match
CX_C18 ==
    (config # NoConfig /\ config.fixed_strings) =>
        /\ \A i \in 1..Len(handler) : handler[i].title # "Failed to parse search text"
        /\ (Evaluated /\ config.search_text # <<>>) =>
              LET m == Len(config.search_text)
                  found == {i \in 1..Len(content) :
                               IF config.match_whole_word THEN Bounded(content, i)
                               ELSE Occurs(content, i)}
              IN /\ output[1].some <=> found # {}
                 /\ output[1].some =>
                       output[1].val =
                           Substituted(content, Taken(found, m), m,
                                       config.replacement_text)

\* C19: in find_and_replace and find_and_replace_text no text is transformed
\* and no file is visited before the validation has returned Success with no
\* error in the handler; when the validation returns ValidationErrors the
\* call returns an error that carries every message of the handler; and
\* whenever the handler holds an error the call ends in an error with every
\* file as it was and no text transformed
T_C19 ==
    op \in {"find_and_replace", "find_and_replace_text"} =>
        /\ pc \in {"text", "walk", "summary"} =>
              validation.ret = "Success" /\ handler = <<>>
        /\ (validation.ret # "Success") =>
              /\ tree = NoTree \/ (tree.files = tree.before /\ tree.visited = 0)
              /\ search = Fixed(<<>>)
        /\ (pc = "done" /\ validation.ret = "ValidationErrors") =>
              /\ ret = "Err"
              /\ handler # <<>>
              /\ output = <<"Validation errors:">> \o handler
        /\ (pc = "done" /\ handler # <<>>) =>
              /\ ret = "Err"
              /\ validation.ret \in {"ValidationErrors", "Err"}
              /\ output \in {<<>>, <<"Validation errors:">> \o handler}

\* find_and_replace on a directory with a file that matches a valid literal
\* search text returned the two glob errors and left the file
W_C19 ==
    /\ op = "find_and_replace"
    /\ pc = "done"
    /\ ret = "Err"
    /\ config.fixed_strings
    /\ config.search_text = <<"a">>
    /\ Len(handler) = 2
    /\ output = <<"Validation errors:">> \o handler
    /\ tree.files = <<<<"a">>, <<".">>>>
    /\ tree.files = tree.before

\* the summary holds an error count
ReportsErrors(text) == \E i \in 1..Len(text) : text[i] = "Errors: "

\* C20 as stated: the summary of find_and_replace reports the number of
\* files updated and, when the rewrite of a file failed during the run, an
\* error count as well
CX_C20 ==
    (op = "find_and_replace" /\ pc = "done" /\ ret = "Ok") =>
        /\ output[1] = "Success: "
        /\ output[2] = ToString(tree.num_files_replaced)
        /\ tree.errors # <<>> => ReportsErrors(output)

\* at least one replacement was written into the file: the rename put the
\* output at the path and, in the streaming path, some candidate was replaced
ReplacementWritten ==
    /\ committed
    /\ Streaming => \E i \in 1..Len(results) : results[i].replace_result = "Success"

\* C21 as stated: replace_all_in_file returns Ok(true) exactly when at least
\* one replacement was written into the file and Ok(false) exactly when none
\* was, also when the file changes between the scan and the rewrite pass
CX_C21 ==
    (op = "replace_all_in_file" /\ pc = "done" /\ ret \in {"OkTrue", "OkFalse"}) =>
        (ret = "OkTrue" <=> ReplacementWritten)

\* C22 as stated: a candidate passed to replace_in_file whose included flag
\* is false never receives outcome Success and its replacement text is never
\* written for its line
CX_C22 ==
    op = "replace_in_file" =>
        \A i \in 1..Len(results) :
            ~results[i].included =>
                /\ results[i].replace_result # "Success"
                /\ (LastForLine(i) /\ results[i].line_number \in 1..Len(chunks)) =>
                      chunks[results[i].line_number] =
                          LineBytes(input[results[i].line_number])

\* C23: calculate_statistics on a sequence that holds a candidate with
\* included = false fails with the assertion and returns no ReplaceStats,
\* whatever the outcomes and the position of that candidate; on a sequence
\* of included candidates only it never fails and returns a ReplaceStats
T_C23 ==
    pc = "stats" =>
        /\ stats.panicked <=> \E i \in 1..Len(results) : ~results[i].included
        /\ stats.panicked => stats = Panicked
        /\ ~stats.panicked =>
              /\ DOMAIN stats = {"panicked", "num_successes", "errors"}
              /\ stats.num_successes \in 0..Len(results)

\* the fold failed on a slice whose first candidate is included and was
\* replaced and whose second candidate is not included
W_C23 ==
    /\ pc = "stats"
    /\ Len(results) = 2
    /\ results[1].included
    /\ results[1].replace_result = "Success"
    /\ ~results[2].included
    /\ stats = Panicked

\* the sequences s and t hold the same elements the same number of times
SameBag(s, t) ==
    /\ Len(s) = Len(t)
    /\ \A i \in 1..Len(s) : Count(s, s[i]) = Count(t, s[i])

\* C24 as stated: folding the candidates in any single sequence gives the
\* same ReplaceStats, with the same num_successes and the same errors, as
\* folding them in the order of the slice
CX_C24 ==
    pc = "parts" => stats.whole = stats.slice

\* C24: folding the same candidates in another order, as one sequence or as
\* two parts folded separately, fails exactly when the fold of the slice
\* fails, and otherwise gives the same num_successes (the parts add up to it)
\* and the same errors up to their order: the errors of a fold stand in the
\* order in which the candidates were folded
T_C24 ==
    pc = "parts" =>
        LET part == stats.parts IN
        /\ stats.whole.panicked <=> stats.slice.panicked
        /\ (part[1].panicked \/ part[2].panicked) <=> stats.slice.panicked
        /\ ~stats.slice.panicked =>
              /\ stats.whole.num_successes = stats.slice.num_successes
              /\ part[1].num_successes + part[2].num_successes =
                    stats.slice.num_successes
              /\ SameBag(stats.whole.errors, stats.slice.errors)
              /\ SameBag(part[1].errors \o part[2].errors, stats.slice.errors)
              /\ stats.slice.num_successes =
                    Cardinality({i \in 1..Len(results) :
                                    results[i].replace_result = "Success"})

\* two candidates that both failed were folded in the reverse order, one in
\* each part, and the errors came out in the reverse order
W_C24 ==
    /\ pc = "parts"
    /\ Len(results) = 2
    /\ ~stats.slice.panicked
    /\ Len(stats.whole.errors) = 2
    /\ stats.whole.errors # stats.slice.errors
    /\ Len(stats.parts[1].errors) = 1
    /\ Len(stats.parts[2].errors) = 1

\* the rewrites entered so far: the calls of replace_in_memory and of
\* replace_in_file
Rewrites == Count(calls, "replace_in_memory") + Count(calls, "replace_in_file")

\* C25 as stated: every rewrite creates at most one temporary file, and one
\* when it reaches the rename, always in the directory of the target; after a
\* successful rewrite no temporary file exists under its temporary name; and
\* a call that writes no replacement (no match in memory, an empty slice of
\* candidates) creates no temporary file
CX_C25 ==
    (op \in {"replace_in_file", "replace_in_memory", "replace_chunked",
             "replace_all_in_file"}) =>
        /\ Len(tempDirs) <= Rewrites
        /\ \A k \in 1..Len(tempDirs) : tempDirs[k] = "parent"
        /\ tempLive => tempDirs # <<>>
        /\ committed => tempDirs # <<>>
        /\ (pc = "done" /\ ret \in {"Ok", "OkTrue", "OkFalse"}) => ~tempLive
        /\ (op = "replace_in_file" /\ results = <<>>) => tempDirs = <<>>
        /\ (op = "replace_in_memory" /\ ret = "OkFalse") => tempDirs = <<>>

\* the stream was read by the line reader
WasRead == op = "lines_with_endings" /\ pc \in {"copy", "done"}

\* C26: for every byte stream, the elements the line reader yields,
\* each content followed by its terminator, concatenate to the stream; an
\* element has kind \r\n exactly where \r\n ends it and kind \n where a \n
\* without \r before it ends it (no content holds a \n, and a content before
\* \n does not end in \r); only the last element can have kind none, and it
\* is never empty, so a stream that ends with a terminator yields no extra
\* empty element and the empty stream yields nothing; the copy loop of
\* replace_in_file writes the stream back byte for byte
T_C26 ==
    WasRead =>
        /\ FileOf(input) = disk
        /\ \A n \in 1..Len(input) :
              /\ \A k \in 1..Len(input[n].line) : input[n].line[k] # LF
              /\ input[n].ending = "None" => n = Len(input) /\ input[n].line # <<>>
              /\ (input[n].ending = "Lf" /\ input[n].line # <<>>) =>
                    Last(input[n].line) # CR
        /\ Len(input) = Count(disk, LF)
                          + (IF disk # <<>> /\ Last(disk) # LF THEN 1 ELSE 0)
        /\ Cardinality({n \in 1..Len(input) : input[n].ending = "CrLf"}) =
              Cardinality({k \in 2..Len(disk) : disk[k - 1] = CR /\ disk[k] = LF})
        /\ (disk # <<>> /\ Last(disk) = LF) => Last(input).ending # "None"
        /\ pc = "done" => Flatten(chunks) = disk

\* a stream of mixed terminators that ends with \n was read as two elements,
\* the first of kind \r\n and the second of kind \n, and copied back
W_C26 ==
    /\ WasRead
    /\ pc = "done"
    /\ disk = <<"a", CR, LF, LF>>
    /\ input = << [line |-> <<"a">>, ending |-> "CrLf"],
                  [line |-> <<>>, ending |-> "Lf"] >>
    /\ Flatten(chunks) = disk

\* main has called validate_args
ArgsValidated == op = "main" /\ pc \in {"config", "done"}

\* validate_args returned an error with the message msg
Rejected(msg) == pc = "done" /\ ret = "Err" /\ output = <<msg>>

\* one of --hidden, --include-files and --exclude-files is given
DirFlag == args.hidden \/ args.include_files.some \/ args.exclude_files.some

\* C27 as stated: validate_args accepts only when the search text is not
\* empty and exactly one of replacement text and --delete is given; it fails
\* with the "must either specify" message when neither is given and with the
\* "cannot specify both" message when both are given; with stdin content it
\* rejects --hidden, --include-files and --exclude-files
CX_C27 ==
    ArgsValidated =>
        /\ ret # "Err" =>
              /\ args.search_text # <<>>
              /\ args.replace_text.some # args.delete
        /\ (~args.replace_text.some /\ ~args.delete) => Rejected(MustEitherSpecify)
        /\ (args.replace_text.some /\ args.delete) => Rejected(CannotSpecifyBoth)
        /\ (stdin_content.some /\ DirFlag) => ret = "Err"

\* C27: validate_args returns the error of the first check that fails, in
\* the order: empty search text; neither replacement text nor --delete
\* ("must either specify"); both of them ("cannot specify both"); and, when
\* stdin content is present, --hidden, then --include-files, then
\* --exclude-files. It accepts exactly when the search text is not empty,
\* exactly one of replacement text and --delete is given, and either there is
\* no stdin content or none of the three flags is given
T_C27 ==
    ArgsValidated =>
        LET neither == ~args.replace_text.some /\ ~args.delete
            both == args.replace_text.some /\ args.delete
        IN /\ ret # "Err" <=>
                 /\ args.search_text # <<>>
                 /\ args.replace_text.some # args.delete
                 /\ ~(stdin_content.some /\ DirFlag)
           /\ args.search_text = <<>> => Rejected(SearchTextEmpty)
           /\ (args.search_text # <<>> /\ neither) => Rejected(MustEitherSpecify)
           /\ (args.search_text # <<>> /\ both) => Rejected(CannotSpecifyBoth)
           /\ (args.search_text # <<>> /\ ~neither /\ ~both /\ stdin_content.some) =>
                 /\ args.hidden => Rejected(NoHiddenWithStdin)
                 /\ (~args.hidden /\ args.include_files.some) =>
                       Rejected(NoIncludeWithStdin)
                 /\ (~args.hidden /\ ~args.include_files.some
                        /\ args.exclude_files.some) =>
                       Rejected(NoExcludeWithStdin)
           /\ Cardinality({SearchTextEmpty, MustEitherSpecify, CannotSpecifyBoth,
                           NoHiddenWithStdin, NoIncludeWithStdin,
                           NoExcludeWithStdin}) = 6

\* a command line with a search text, an empty replacement text and --delete
\* was rejected with the "cannot specify both" message
W_C27 ==
    /\ ArgsValidated
    /\ args.search_text = <<"a">>
    /\ args.replace_text = SomeStr(<<>>)
    /\ args.delete
    /\ ~stdin_content.some
    /\ Rejected(CannotSpecifyBoth)

\* C28 as stated, for included candidates: after replace_in_file has
\* returned, a candidate carries outcome Success only if the file at the
\* target path holds the candidate's replacement text at its line, and no
\* candidate carries Success when replace_in_file returned an error
CX_C28 ==
    (op = "replace_in_file" /\ Finished) =>
        \A i \in 1..Len(results) :
            (results[i].included /\ results[i].replace_result = "Success") =>
                /\ ret = "Ok"
                /\ LET out == lines_with_endings(disk) IN
                   /\ results[i].line_number \in 1..Len(out)
                   /\ out[results[i].line_number].line = results[i].replacement

\* another candidate of the slice carries the line number of candidate i
Duplicated(i) ==
    \E j \in 1..Len(results) : j # i /\ results[j].line_number = results[i].line_number

\* C29 as stated, for calls with included candidates on a file that meet no
\* I/O error: of several candidates with the same line number the last in
\* the slice receives an outcome and every other one keeps none
CX_C29 ==
    (op = "replace_in_file" /\ Finished /\ path = "file" /\ ~ioFault
        /\ \A k \in 1..Len(results) : results[k].included) =>
        \A i \in 1..Len(results) :
            Duplicated(i) =>
                IF LastForLine(i) THEN results[i].replace_result # "None"
                ELSE results[i].replace_result = "None"

\* C29: of several candidates passed to replace_in_file with the same line
\* number only the last in the slice can receive an outcome, and it receives
\* one when that line exists in the file and the pass reaches it; every other
\* one keeps no outcome and is reported by calculate_statistics, when all
\* candidates are included, with "Failed to find search result in file"; and
\* each line is written once, as read or as the replacement of that last
\* candidate
T_C29 ==
    op = "replace_in_file" =>
        /\ \A i \in 1..Len(results) :
              Duplicated(i) =>
                  /\ ~LastForLine(i) =>
                        /\ results[i].replace_result = "None"
                        /\ (pc = "stats" /\ ~stats.panicked) =>
                              stats.errors[Cardinality(Failures(i))] =
                                  [results[i] EXCEPT !.replace_result = ErrNotFound]
                  /\ (LastForLine(i) /\ results[i].line_number \in 1..Len(chunks)) =>
                        results[i].replace_result \in {"Success", ErrFileChanged}
                  /\ (LastForLine(i) /\ Finished /\ ~ioFault
                         /\ results[i].line_number \in 1..FileLines) =>
                        results[i].replace_result \in {"Success", ErrFileChanged}
                  /\ (LastForLine(i) /\ results[i].line_number \notin 1..FileLines) =>
                        results[i].replace_result = "None"
        /\ \A n \in 1..Len(chunks) :
              \/ chunks[n] = LineBytes(input[n])
              \/ \E j \in 1..Len(results) :
                    /\ results[j].line_number = n
                    /\ LastForLine(j)
                    /\ chunks[n] = results[j].replacement \o as_bytes(input[n].ending)

\* two included candidates carry line number 1 of a file: the rewrite
\* replaced the line for the second one, the first kept no outcome, and the
\* statistics count one success and report the first as not found
W_C29 ==
    /\ pc = "stats"
    /\ ret = "Ok"
    /\ Len(results) = 2
    /\ results[1].line_number = 1
    /\ results[2].line_number = 1
    /\ results[1].replace_result = "None"
    /\ results[2].replace_result = "Success"
    /\ ~stats.panicked
    /\ stats.num_successes = 1
    /\ stats.errors = <<[results[1] EXCEPT !.replace_result = ErrNotFound]>>

\* C30 as stated: find_and_replace_text returns a text with the line
\* terminators of its input, each \n or \r\n and the presence or absence of
\* the last one, and returns the input itself when the pattern matches no
\* line
CX_C30 ==
    (op = "find_and_replace_text" /\ pc = "done" /\ ret = "Ok") =>
        /\ EndingsOf(lines_with_endings(output)) =
              EndingsOf(lines_with_endings(content))
        /\ (\A i \in 1..Len(str_lines(content)) :
               ~replacement_if_match(str_lines(content)[i], search, replace).some)
              => output = content

====
